---- MODULE Spec2Model ----
(***************************************************************************)
(* Mesh generation of Python-Gravity-Sim: the regular-polyhedron generator *)
(* with recursive face subdivision (meshes/polyhedronGeo.py), the          *)
(* parametric surface sampler (meshes/parametricGeo.py, torusGeo.py,       *)
(* planeGeo.py) and the mesh container (meshes/mesh_data.py).              *)
(*                                                                         *)
(* Floats are modelled in fixed point: a real x is the integer             *)
(* round(x * SCALE).  Vertex indices are 0-based as in the source;         *)
(* sequences are 1-based, so vertex i is vertices[i + 1].                  *)
(***************************************************************************)
EXTENDS Integers, Sequences, FiniteSets, TLC

(* ------------------------------ bounds --------------------------------- *)
MaxSubdivisions == 2
MaxBuffers == 12
MaxSegments == 8
MaxNegSegments == 2
MaxAttrLen == 2

\* apply_mat calls on one mesh
MaxTransforms == 2

\* segment counts of the parametric meshes that get transformed
MaxXformSegments == 2

\* entities ever created
MaxEntities == 3

\* merge calls on one mesh object
MaxMerges == 2

\* next_mesh / increase_subdivision calls on one MeshManager
MaxManagerCalls == 6

(* ------------------------- fixed-point numbers ------------------------- *)
SCALE == 1000
\* 1e-8 is below the resolution of the fixed point: "length < 1e-8" is
\* "length < EPS" with EPS the smallest positive fixed-point number.
EPS == 1
PI == 3142

Abs(x) == IF x < 0 THEN 0 - x ELSE x

Sign(x) == IF x < 0 THEN 0 - 1 ELSE 1

\* a / b rounded to the nearest integer, symmetric around 0 (b # 0)
RDiv(a, b) == Sign(a) * Sign(b) * ((2 * Abs(a) + Abs(b)) \div (2 * Abs(b)))

\* fixed-point product of two fixed-point numbers
FMul(a, b) == RDiv(a * b, SCALE)

RECURSIVE SqrtIter(_, _, _)
SqrtIter(n, lo, hi) ==
    IF lo >= hi THEN lo
    ELSE LET mid == (lo + hi + 1) \div 2
         IN IF mid * mid <= n THEN SqrtIter(n, mid, hi)
            ELSE SqrtIter(n, lo, mid - 1)

\* floor of the square root of a natural number below 2^31
ISqrt(n) == SqrtIter(n, 0, 46340)

\* math.sqrt of a fixed-point number
FSqrt(x) == ISqrt(x * SCALE)

RECURSIVE SumSeq(_)
SumSeq(s) == IF s = <<>> THEN 0 ELSE Head(s) + SumSeq(Tail(s))

(* --------------------------- vector kernel ----------------------------- *)
\* length of a vector of fixed-point numbers, as a fixed-point number
VecLength(v) == ISqrt(SumSeq([i \in 1..Len(v) |-> v[i] * v[i]]))

normalize(vector) ==
    LET length == VecLength(vector)
    IN IF length < EPS THEN vector
       ELSE [i \in 1..Len(vector) |-> RDiv(vector[i] * SCALE, length)]

cross_product(a, b) ==
    << RDiv(a[2] * b[3] - a[3] * b[2], SCALE),
       RDiv(a[3] * b[1] - a[1] * b[3], SCALE),
       RDiv(a[1] * b[2] - a[2] * b[1], SCALE) >>

dot_product(a, b) ==
    RDiv(a[1] * b[1] + a[2] * b[2] + a[3] * b[3], SCALE)

midpoint(v1, v2) == [i \in 1..3 |-> RDiv(v1[i] + v2[i], 2)]

VecSub(a, b) == [i \in 1..3 |-> a[i] - b[i]]

VecAdd(a, b) == [i \in 1..3 |-> a[i] + b[i]]

VecNeg(a) == [i \in 1..3 |-> 0 - a[i]]

(* ------------------------- base solid catalog -------------------------- *)
SolidTypes == {"tetrahedron", "octahedron", "cube", "icosahedron", "dodecahedron"}

\* type names a caller may pass that the catalog does not know
UnknownTypes == {"hexagon", "sphere"}

\* radii a caller may pass (fixed point): 1.0 and 2.5
Radii == {SCALE, 2500}

\* (1 + sqrt 2) / 2
TetraT == 1207

\* (1 + sqrt 5) / 2
IcosaT == 1618

TetrahedronVertices ==
    << <<0 - 1000, 0 - TetraT, 0>>, <<1000, 0 - TetraT, 0>>,
       <<0, 1000, TetraT>>, <<0, 1000, 0 - TetraT>> >>

TetrahedronFaces == << <<2, 1, 0>>, <<2, 3, 1>>, <<0, 3, 2>>, <<1, 3, 0>> >>

OctahedronVertices ==
    << <<1000, 0, 0>>, <<0 - 1000, 0, 0>>, <<0, 1000, 0>>,
       <<0, 0 - 1000, 0>>, <<0, 0, 1000>>, <<0, 0, 0 - 1000>> >>

OctahedronFaces ==
    << <<4, 0, 2>>, <<4, 2, 1>>, <<4, 1, 3>>, <<4, 3, 0>>,
       <<5, 2, 0>>, <<5, 1, 2>>, <<5, 3, 1>>, <<5, 0, 3>> >>

CubeVertices ==
    << <<0 - 1000, 0 - 1000, 0 - 1000>>, <<1000, 0 - 1000, 0 - 1000>>,
       <<1000, 1000, 0 - 1000>>, <<0 - 1000, 1000, 0 - 1000>>,
       <<0 - 1000, 0 - 1000, 1000>>, <<1000, 0 - 1000, 1000>>,
       <<1000, 1000, 1000>>, <<0 - 1000, 1000, 1000>> >>

CubeFaces ==
    << <<0, 2, 1>>, <<0, 3, 2>>,
       <<4, 5, 7>>, <<5, 6, 7>>,
       <<0, 4, 7>>, <<0, 7, 3>>,
       <<1, 2, 6>>, <<1, 6, 5>>,
       <<3, 7, 6>>, <<3, 6, 2>>,
       <<0, 1, 5>>, <<0, 5, 4>> >>

IcosahedronVertices ==
    << <<0 - 1000, IcosaT, 0>>, <<1000, IcosaT, 0>>,
       <<0 - 1000, 0 - IcosaT, 0>>, <<1000, 0 - IcosaT, 0>>,
       <<0, 0 - 1000, IcosaT>>, <<0, 1000, IcosaT>>,
       <<0, 0 - 1000, 0 - IcosaT>>, <<0, 1000, 0 - IcosaT>>,
       <<IcosaT, 0, 0 - 1000>>, <<IcosaT, 0, 1000>>,
       <<0 - IcosaT, 0, 0 - 1000>>, <<0 - IcosaT, 0, 1000>> >>

IcosahedronFaces ==
    << <<0, 11, 5>>, <<0, 5, 1>>, <<0, 1, 7>>, <<0, 7, 10>>, <<0, 10, 11>>,
       <<1, 5, 9>>, <<5, 11, 4>>, <<11, 10, 2>>, <<10, 7, 6>>, <<7, 1, 8>>,
       <<3, 9, 4>>, <<3, 4, 2>>, <<3, 2, 6>>, <<3, 6, 8>>, <<3, 8, 9>>,
       <<4, 9, 5>>, <<2, 4, 11>>, <<6, 2, 10>>, <<8, 6, 7>>, <<9, 8, 1>> >>

DodecahedronVertices ==
    << <<0, 0, 1070>>, <<714, 0, 798>>, <<0 - 357, 618, 798>>,
       <<0 - 357, 0 - 618, 798>>, <<798, 618, 357>>,
       <<798, 0 - 618, 357>>, <<0 - 934, 382, 357>>,
       <<136, 1000, 357>>, <<136, 0 - 1000, 357>>,
       <<0 - 934, 0 - 382, 357>>, <<934, 382, 0 - 357>>,
       <<934, 0 - 382, 0 - 357>>, <<0 - 798, 618, 0 - 357>>,
       <<0 - 136, 1000, 0 - 357>>, <<0 - 136, 0 - 1000, 0 - 357>>,
       <<0 - 798, 0 - 618, 0 - 357>>, <<357, 618, 0 - 798>>,
       <<357, 0 - 618, 0 - 798>>, <<0 - 714, 0, 0 - 798>>,
       <<0, 0, 0 - 1070>> >>

pentagon_faces ==
    << <<0, 1, 4, 7, 2>>, <<0, 2, 6, 9, 3>>, <<0, 3, 8, 5, 1>>,
       <<1, 5, 11, 10, 4>>, <<2, 7, 13, 12, 6>>, <<3, 9, 15, 14, 8>>,
       <<4, 10, 16, 13, 7>>, <<5, 8, 14, 17, 11>>, <<6, 12, 18, 15, 9>>,
       <<10, 11, 17, 19, 16>>, <<12, 13, 16, 19, 18>>, <<14, 15, 18, 19, 17>> >>

\* a fan whose last triangle repeats a corner
PentagonFanRepeated(pentagon) ==
    << <<pentagon[1], pentagon[2], pentagon[3]>>,
       <<pentagon[1], pentagon[3], pentagon[4]>>,
       <<pentagon[1], pentagon[4], pentagon[4]>> >>

\* the three fan triangles of one pentagon, from its first vertex
PentagonFan(pentagon) ==
    << <<pentagon[1], pentagon[2], pentagon[3]>>,
       <<pentagon[1], pentagon[3], pentagon[4]>>,
       <<pentagon[1], pentagon[4], pentagon[5]>> >>

\* the concatenation of a sequence of triples (list.extend, face after face)
FlattenTriples(ss) ==
    [n \in 1..(3 * Len(ss)) |-> ss[((n - 1) \div 3) + 1][((n - 1) % 3) + 1]]

DodecahedronFaces ==
    FlattenTriples([p \in 1..Len(pentagon_faces) |-> PentagonFan(pentagon_faces[p])])

\* a catalog that substitutes the tetrahedron for an unknown name
get_base_polyhedron_fallback(polyhedron_type) ==
    IF polyhedron_type = "octahedron"
    THEN [raised |-> FALSE, vertices |-> OctahedronVertices, faces |-> OctahedronFaces]
    ELSE IF polyhedron_type = "cube"
    THEN [raised |-> FALSE, vertices |-> CubeVertices, faces |-> CubeFaces]
    ELSE IF polyhedron_type = "icosahedron"
    THEN [raised |-> FALSE, vertices |-> IcosahedronVertices, faces |-> IcosahedronFaces]
    ELSE IF polyhedron_type = "dodecahedron"
    THEN [raised |-> FALSE, vertices |-> DodecahedronVertices, faces |-> DodecahedronFaces]
    ELSE [raised |-> FALSE, vertices |-> TetrahedronVertices, faces |-> TetrahedronFaces]

\* raised = TRUE is the ValueError of the else branch
get_base_polyhedron(polyhedron_type) ==
    IF polyhedron_type = "tetrahedron"
    THEN [raised |-> FALSE, vertices |-> TetrahedronVertices, faces |-> TetrahedronFaces]
    ELSE IF polyhedron_type = "octahedron"
    THEN [raised |-> FALSE, vertices |-> OctahedronVertices, faces |-> OctahedronFaces]
    ELSE IF polyhedron_type = "cube"
    THEN [raised |-> FALSE, vertices |-> CubeVertices, faces |-> CubeFaces]
    ELSE IF polyhedron_type = "icosahedron"
    THEN [raised |-> FALSE, vertices |-> IcosahedronVertices, faces |-> IcosahedronFaces]
    ELSE IF polyhedron_type = "dodecahedron"
    THEN [raised |-> FALSE, vertices |-> DodecahedronVertices, faces |-> DodecahedronFaces]
    ELSE [raised |-> TRUE, vertices |-> <<>>, faces |-> <<>>]

(* --------------------------- subdivision engine ------------------------ *)
Min(a, b) == IF a <= b THEN a ELSE b

Max(a, b) == IF a >= b THEN a ELSE b

\* a key that keeps the direction of traversal
midpoint_key_directed(v1_idx, v2_idx) == <<v1_idx, v2_idx>>

\* smaller, larger = sorted((v1_idx, v2_idx)); key = (smaller, larger)
midpoint_key(v1_idx, v2_idx) == <<Min(v1_idx, v2_idx), Max(v1_idx, v2_idx)>>

EmptyCache == [k \in {} |-> 0]

\* a midpoint left on the chord, not projected back onto the unit sphere
get_midpoint_index_on_chord(verts, nv, cache, v1_idx, v2_idx) ==
    LET key == midpoint_key(v1_idx, v2_idx)
    IN IF key \in DOMAIN cache
       THEN [index |-> cache[key], new_vertices |-> nv, midpoint_cache |-> cache]
       ELSE LET nv2 == Append(nv, midpoint(verts[v1_idx + 1], verts[v2_idx + 1]))
            IN [index |-> Len(nv2) - 1,
                new_vertices |-> nv2,
                midpoint_cache |-> [k \in DOMAIN cache \cup {key} |->
                                      IF k = key THEN Len(nv2) - 1 ELSE cache[k]]]

\* get_midpoint_index of subdivide_faces: verts is the pass's input vertex
\* list, nv the growing new_vertices, cache the midpoint_cache.  The result
\* carries the returned index and the updated new_vertices and cache.
get_midpoint_index(verts, nv, cache, v1_idx, v2_idx) ==
    LET key == midpoint_key(v1_idx, v2_idx)
    IN IF key \in DOMAIN cache
       THEN [index |-> cache[key], new_vertices |-> nv, midpoint_cache |-> cache]
       ELSE LET mp == normalize(midpoint(verts[v1_idx + 1], verts[v2_idx + 1]))
                nv2 == Append(nv, mp)
                midpoint_index == Len(nv2) - 1
            IN [index |-> midpoint_index,
                new_vertices |-> nv2,
                midpoint_cache |-> [k \in DOMAIN cache \cup {key} |->
                                      IF k = key THEN midpoint_index ELSE cache[k]]]

\* a subdivision whose centre triangle is wound the other way round
child_faces_centre_reversed(v1, v2, v3, a, b, c) ==
    << <<v1, a, c>>, <<v2, b, a>>, <<v3, c, b>>, <<a, c, b>> >>

\* a subdivision that leaves out the centre triangle
child_faces_corners_only(v1, v2, v3, a, b, c) ==
    << <<v1, a, c>>, <<v2, b, a>>, <<v3, c, b>> >>

\* a subdivision that keeps only the centre triangle
child_faces_centre_only(v1, v2, v3, a, b, c) ==
    << <<a, b, c>> >>

\* the four triangles that replace face (v1, v2, v3) with midpoints a, b, c
child_faces(v1, v2, v3, a, b, c) ==
    << <<v1, a, c>>, <<v2, b, a>>, <<v3, c, b>>, <<a, b, c>> >>

\* one iteration of "for face in faces" of subdivide_faces
subdivide_one_face(verts, face, nv, nf, cache) ==
    LET v1 == face[1]
        v2 == face[2]
        v3 == face[3]
        ra == get_midpoint_index(verts, nv, cache, v1, v2)
        rb == get_midpoint_index(verts, ra.new_vertices, ra.midpoint_cache, v2, v3)
        rc == get_midpoint_index(verts, rb.new_vertices, rb.midpoint_cache, v3, v1)
    IN [new_vertices |-> rc.new_vertices,
        midpoint_cache |-> rc.midpoint_cache,
        new_faces |-> nf \o child_faces(v1, v2, v3, ra.index, rb.index, rc.index)]

(* ------------------------- normal and UV deriver ----------------------- *)
\* atan(t) for a fixed-point t in [0, 1]: t * pi/4 + 0.273 * t * (1 - t)
AtanUnit(t) == FMul(t, RDiv(PI, 4)) + FMul(273, FMul(t, SCALE - t))

\* math.atan2(y, x) in fixed-point radians
Atan2(y, x) ==
    IF x = 0 /\ y = 0 THEN 0
    ELSE LET ax == Abs(x)
             ay == Abs(y)
             a0 == IF ax >= ay THEN AtanUnit(RDiv(ay * SCALE, ax))
                   ELSE RDiv(PI, 2) - AtanUnit(RDiv(ax * SCALE, ay))
             a1 == IF x < 0 THEN PI - a0 ELSE a0
         IN IF y < 0 THEN 0 - a1 ELSE a1

\* math.asin(y) for a fixed-point y in [-1, 1]
Asin(y) == Atan2(y, FSqrt(Max(0, SCALE - FMul(y, y))))

calculate_uv(normalized_vertex) ==
    LET x == normalized_vertex[1]
        y == normalized_vertex[2]
        z == normalized_vertex[3]
        u == RDiv(SCALE, 2) + RDiv(Atan2(x, z) * SCALE, 2 * PI)
        v == RDiv(SCALE, 2) + RDiv(Asin(y) * SCALE, PI)
    IN <<u, v>>

\* the normal of one face as its winding gives it, never negated
face_normal_as_wound(verts, face) ==
    LET v0 == verts[face[1] + 1]
        v1 == verts[face[2] + 1]
        v2 == verts[face[3] + 1]
    IN normalize(cross_product(VecSub(v1, v0), VecSub(v2, v0)))

\* the outward-corrected normal of one face (lines 47-55 and 134-149)
face_normal(verts, face) ==
    LET v0 == verts[face[1] + 1]
        v1 == verts[face[2] + 1]
        v2 == verts[face[3] + 1]
        e1 == VecSub(v1, v0)
        e2 == VecSub(v2, v0)
        normal == normalize(cross_product(e1, e2))
        center == [i \in 1..3 |-> RDiv(v0[i] + v1[i] + v2[i], 3)]
    IN IF dot_product(center, normal) < 0 THEN VecNeg(normal) ELSE normal

\* face_normals of __init__: one normal per face
compute_face_normals(verts, fcs) == [k \in 1..Len(fcs) |-> face_normal(verts, fcs[k])]

FaceHas(face, i) == face[1] = i \/ face[2] = i \/ face[3] = i

\* the faces (1-based positions in fcs) that reference vertex i
FacesOf(fcs, i) == {k \in 1..Len(fcs) : FaceHas(fcs[k], i)}

\* how many of the three corners of face are vertex i
Occurrences(face, i) == Cardinality({j \in 1..3 : face[j] = i})

\* the sum of f[k] over the k in S
RECURSIVE SumOver(_, _)
SumOver(S, f) ==
    IF S = {} THEN 0
    ELSE LET k == CHOOSE x \in S : TRUE
         IN f[k] + SumOver(S \ {k}, f)

\* what the accumulation loop of calculate_vertex_normals (lines 133-157)
\* leaves for vertex i: the sum of the normals of the faces that reference
\* it, once per reference, and the number of references
accumulated_normal(verts, fcs, i) ==
    LET S == FacesOf(fcs, i)
        part(c) == SumOver(S, [k \in S |->
                                 Occurrences(fcs[k], i) * face_normal(verts, fcs[k])[c]])
    IN <<part(1), part(2), part(3)>>

vertex_count(fcs, i) ==
    SumOver(FacesOf(fcs, i), [k \in FacesOf(fcs, i) |-> Occurrences(fcs[k], i)])

calculate_vertex_normals(verts, fcs) ==
    [i \in 1..Len(verts) |->
       LET cnt == vertex_count(fcs, i - 1)
           acc == accumulated_normal(verts, fcs, i - 1)
       IN IF cnt > 0
          THEN normalize([c \in 1..3 |-> RDiv(acc[c], cnt)])
          ELSE normalize(verts[i])]

default_colors ==
    << <<SCALE, 0, 0>>, <<0, SCALE, 0>>, <<0, 0, SCALE>>,
       <<0, SCALE, SCALE>>, <<SCALE, 0, SCALE>>, <<SCALE, SCALE, 0>> >>

FallbackColor == <<700, 700, 700>>

\* position (1-based) of the first face that contains vertex i, 0 if none
first_face_with(fcs, i) ==
    LET S == FacesOf(fcs, i)
    IN IF S = {} THEN 0 ELSE CHOOSE k \in S : \A j \in S : k <= j

\* vertex_colors of __init__ (lines 64-75)
compute_vertex_colors(verts, fcs) ==
    [i \in 1..Len(verts) |->
       LET k == first_face_with(fcs, i - 1)
       IN IF k > 0 THEN default_colors[((k - 1) % Len(default_colors)) + 1]
          ELSE FallbackColor]

\* expanded_face_normals of __init__ (lines 77-81): computed, never stored
expanded_face_normals(verts, fcs) ==
    LET fns == compute_face_normals(verts, fcs)
    IN [n \in 1..(3 * Len(fcs)) |-> fns[((n - 1) \div 3) + 1]]

(* ---------------------------- mesh container --------------------------- *)
\* self.attributes: a dict in insertion order, as a sequence of entries
HasAttr(attrs, name) == \E n \in 1..Len(attrs) : attrs[n].name = name

AttrIndex(attrs, name) == CHOOSE n \in 1..Len(attrs) : attrs[n].name = name

AttrData(attrs, name) == attrs[AttrIndex(attrs, name)].data

AttrNames(attrs) == {attrs[n].name : n \in 1..Len(attrs)}

gl_type_of(data_type) ==
    IF data_type \in {"vec2", "vec3", "float"} THEN "GL_FLOAT"
    ELSE IF data_type \in {"uint", "int"} THEN "GL_UNSIGNED_INT"
    ELSE data_type

add_attr(attrs, data_type, variable_name, data) ==
    LET entry == [name |-> variable_name, gl_type |-> gl_type_of(data_type), data |-> data]
    IN IF HasAttr(attrs, variable_name)
       THEN [attrs EXCEPT ![AttrIndex(attrs, variable_name)] = entry]
       ELSE Append(attrs, entry)

\* the value count_vert stores in num_vertices
count_vert(attrs) ==
    IF HasAttr(attrs, "indices") THEN Len(AttrData(attrs, "indices"))
    ELSE IF attrs # <<>> THEN Len(attrs[1].data)
    ELSE 0

\* storing the expanded per-face array instead
polyhedron_f_norm_expanded(verts, fcs, vertex_normals) == expanded_face_normals(verts, fcs)

\* the attribute stored under "f_norm" by PolyhedronGeometry.__init__ (line 88)
polyhedron_f_norm(verts, fcs, vertex_normals) == vertex_normals

\* lines 36-95 of PolyhedronGeometry.__init__: verts are the unit vertices
polyhedron_attributes(verts, fcs, r) ==
    LET scaled == [i \in 1..Len(verts) |-> [c \in 1..3 |-> FMul(r, verts[i][c])]]
        vertex_normals == calculate_vertex_normals(scaled, fcs)
        uv_coords == [i \in 1..Len(scaled) |-> calculate_uv(normalize(scaled[i]))]
        vertex_colors == compute_vertex_colors(scaled, fcs)
        indices == FlattenTriples(fcs)
        a1 == add_attr(<<>>, "vec3", "v_pos", scaled)
        a2 == add_attr(a1, "vec3", "color", vertex_colors)
        a3 == add_attr(a2, "vec2", "v_uv", uv_coords)
        a4 == add_attr(a3, "vec3", "v_norm", vertex_normals)
        a5 == add_attr(a4, "vec3", "f_norm", polyhedron_f_norm(scaled, fcs, vertex_normals))
    IN add_attr(a5, "uint", "indices", indices)



(* ---------------------- parametric surface sampler --------------------- *)
\* math.sin of a fixed-point angle: Bhaskara's approximation on [0, pi],
\* extended by sin(x + pi) = -sin(x) and the period 2 pi
SinHalf(x) ==
    LET p == x * (PI - x)
    IN RDiv(16 * p, RDiv(5 * PI * PI - 4 * p, SCALE))

Sin(x) ==
    LET y == x % (2 * PI)
    IN IF y <= PI THEN SinHalf(y) ELSE 0 - SinHalf(y - PI)

Cos(x) == Sin(x + RDiv(PI, 2))

SurfaceFns == {"plane", "torus"}

\* TorusGeometry defaults: major_radius = 1.0, minor_radius = 0.3
major_radius == SCALE

minor_radius == 300

\* surface_function of PlaneGeometry and torus_function of TorusGeometry
surface_fn(sfn, u, v) ==
    IF sfn = "plane" THEN <<u, v, 0>>
    ELSE LET ring == major_radius + FMul(minor_radius, Cos(v))
         IN <<FMul(ring, Cos(u)), FMul(ring, Sin(u)), FMul(minor_radius, Sin(v))>>

\* the (u_min, u_max) = (v_min, v_max) the subclass passes: PlaneGeometry
\* with width = height = 1, TorusGeometry with 0 .. 2 pi
param_min(sfn) == IF sfn = "plane" THEN 0 - RDiv(SCALE, 2) ELSE 0

param_max(sfn) == IF sfn = "plane" THEN RDiv(SCALE, 2) ELSE 2 * PI

\* len(range(n))
RangeLen(n) == IF n > 0 THEN n ELSE 0

VecScaleDiv(a, d) == [i \in 1..3 |-> RDiv(a[i] * SCALE, d)]

\* calculate_surface_normal(u, v, h), lines 53-79
calculate_surface_normal(sfn, u_step, v_step, u, v, h) ==
    LET du == FMul(h, u_step)
        dv == FMul(h, v_step)
        p_center == surface_fn(sfn, u, v)
        du_vector == VecScaleDiv(VecSub(surface_fn(sfn, u + du, v),
                                        surface_fn(sfn, u - du, v)), 2 * du)
        dv_vector == VecScaleDiv(VecSub(surface_fn(sfn, u, v + dv),
                                        surface_fn(sfn, u, v - dv)), 2 * dv)
        normal == cross_product(du_vector, dv_vector)
        norm == VecLength(normal)
    IN IF norm < EPS
       THEN IF VecLength(p_center) >= EPS
            THEN VecScaleDiv(p_center, VecLength(p_center))
            ELSE <<0, SCALE, 0>>
       ELSE VecScaleDiv(normal, norm)

\* calculate_face_normal(p1, p2, p3), lines 81-92
calculate_face_normal(p1, p2, p3) ==
    LET normal == cross_product(VecSub(p2, p1), VecSub(p3, p1))
        norm == VecLength(normal)
    IN IF norm < EPS THEN <<0, SCALE, 0>> ELSE VecScaleDiv(normal, norm)

param_colors ==
    << <<SCALE, 0, 0>>, <<0, SCALE, 0>>, <<0, 0, SCALE>>,
       <<SCALE, SCALE, 0>>, <<0, SCALE, SCALE>>, <<SCALE, 0, SCALE>> >>

\* vertices[i][j] of the sample grid (lines 32-34); u_min = v_min = pmin
grid_vertex(sfn, pmin, u_step, v_step, i, j) ==
    surface_fn(sfn, pmin + i * u_step, pmin + j * v_step)

\* a split of the cell along the other diagonal, (i+1, j)-(i, j+1)
cell_indices_other_diagonal(u_idx, v_idx, vs) ==
    LET i0 == u_idx * (vs + 1) + v_idx
        i1 == (u_idx + 1) * (vs + 1) + v_idx
        i2 == (u_idx + 1) * (vs + 1) + (v_idx + 1)
        i3 == u_idx * (vs + 1) + (v_idx + 1)
    IN <<i0, i1, i3, i1, i2, i3>>

\* the six indices one grid cell contributes (lines 142-155)
cell_indices(u_idx, v_idx, vs) ==
    LET i0 == u_idx * (vs + 1) + v_idx
        i1 == (u_idx + 1) * (vs + 1) + v_idx
        i2 == (u_idx + 1) * (vs + 1) + (v_idx + 1)
        i3 == u_idx * (vs + 1) + (v_idx + 1)
    IN <<i0, i1, i2, i0, i2, i3>>

\* the face normal recorded for the triangles of cell (u_idx, v_idx):
\* computed from p1, p2, p3 of the quad (lines 129-134)
quad_face_normal(sfn, pmin, u_step, v_step, u_idx, v_idx) ==
    calculate_face_normal(grid_vertex(sfn, pmin, u_step, v_step, u_idx, v_idx),
                          grid_vertex(sfn, pmin, u_step, v_step, u_idx + 1, v_idx),
                          grid_vertex(sfn, pmin, u_step, v_step, u_idx + 1, v_idx + 1))

\* a grid that drops the last sample of each row
grid_cols_open(vs) == RangeLen(vs)

\* the samples per row of the grid: len(range(v_segments + 1))
grid_cols(vs) == RangeLen(vs + 1)

\* the rows of the grid: len(range(u_segments + 1))
grid_rows(us) == RangeLen(us + 1)

\* the entries face_normals gets per grid cell (lines 152 and 156)
normals_per_cell == 6

\* lines 27-164 of ParametricGeometry.__init__ for u_segments, v_segments # 0
parametric_attributes(sfn, us, vs) ==
    LET u_min == param_min(sfn)
        v_min == param_min(sfn)
        u_step == RDiv(param_max(sfn) - u_min, us)
        v_step == RDiv(param_max(sfn) - v_min, vs)
        rows == grid_rows(us)
        cols == grid_cols(vs)
        qrows == RangeLen(us)
        qcols == RangeLen(vs)
        vert(i, j) == grid_vertex(sfn, u_min, u_step, v_step, i, j)
        row(n) == (n - 1) \div cols
        col(n) == (n - 1) % cols
        vertex_positions == [n \in 1..(rows * cols) |-> vert(row(n), col(n))]
        vertex_uvs == [n \in 1..(rows * cols) |->
                         <<RDiv(row(n) * SCALE, us), RDiv(col(n) * SCALE, vs)>>]
        vertex_normals == [n \in 1..(rows * cols) |->
                             calculate_surface_normal(sfn, u_step, v_step,
                                                      u_min + row(n) * u_step,
                                                      v_min + col(n) * v_step, 10)]
        vertex_colors == [n \in 1..(rows * cols) |->
                            param_colors[((row(n) + col(n)) % Len(param_colors)) + 1]]
        cell_u(m) == (m - 1) \div qcols
        cell_v(m) == (m - 1) % qcols
        indices == [n \in 1..(6 * qrows * qcols) |->
                      cell_indices(cell_u(((n - 1) \div 6) + 1), cell_v(((n - 1) \div 6) + 1),
                                   vs)[((n - 1) % 6) + 1]]
        face_normals == [n \in 1..(normals_per_cell * qrows * qcols) |->
                           quad_face_normal(sfn, u_min, u_step, v_step,
                                            cell_u(((n - 1) \div normals_per_cell) + 1),
                                            cell_v(((n - 1) \div normals_per_cell) + 1))]
        a1 == add_attr(<<>>, "vec2", "v_uv", vertex_uvs)
        a2 == add_attr(a1, "vec3", "v_pos", vertex_positions)
        a3 == add_attr(a2, "vec3", "color", vertex_colors)
        a4 == add_attr(a3, "vec3", "v_norm", vertex_normals)
        a5 == add_attr(a4, "vec3", "f_norm", face_normals)
    IN add_attr(a5, "uint", "indices", indices)

\* the check of lines 27-29: does the constructor raise (and what)?
\* A zero segment count divides by zero; nothing else is checked.
parametric_error(us, vs) == IF us = 0 \/ vs = 0 THEN "ZeroDivisionError" ELSE "none"

(* ------------------------------ apply_mat ------------------------------ *)
\* a 4x4 matrix is a tuple of 4 rows of 4 fixed-point entries: matrix[r][c]
Identity4 ==
    << <<SCALE, 0, 0, 0>>, <<0, SCALE, 0, 0>>, <<0, 0, SCALE, 0>>, <<0, 0, 0, SCALE>> >>

\* a quarter turn about the z axis
RotateZ4 ==
    << <<0, 0 - SCALE, 0, 0>>, <<SCALE, 0, 0, 0>>, <<0, 0, SCALE, 0>>, <<0, 0, 0, SCALE>> >>

\* a non-uniform scaling by (2, 1, 0.5)
Scale4 ==
    << <<2 * SCALE, 0, 0, 0>>, <<0, SCALE, 0, 0>>, <<0, 0, 500, 0>>, <<0, 0, 0, SCALE>> >>

\* a translation by (1, -2, 0.5)
Translate4 ==
    << <<SCALE, 0, 0, SCALE>>, <<0, SCALE, 0, 0 - 2 * SCALE>>, <<0, 0, SCALE, 500>>,
       <<0, 0, 0, SCALE>> >>

\* the projection onto the plane z = 0: its linear part has no inverse
Flatten4 ==
    << <<SCALE, 0, 0, 0>>, <<0, SCALE, 0, 0>>, <<0, 0, 0, 0>>, <<0, 0, 0, SCALE>> >>

Matrices == {Identity4, RotateZ4, Scale4, Translate4, Flatten4}

\* a transform that keeps columns 1..3 of the product instead of 0..2
transform_point_shifted(matrix, p) ==
    [r \in 1..3 |-> FMul(matrix[r + 1][1], p[1]) + FMul(matrix[r + 1][2], p[2])
                      + FMul(matrix[r + 1][3], p[3]) + matrix[r + 1][4]]

\* one row of (matrix @ homo.T).T[:, :3], homo = (x, y, z, 1)
transform_point(matrix, p) ==
    [r \in 1..3 |-> FMul(matrix[r][1], p[1]) + FMul(matrix[r][2], p[2])
                      + FMul(matrix[r][3], p[3]) + matrix[r][4]]

\* matrix[:3, :3]
mat33(matrix) == [r \in 1..3 |-> [c \in 1..3 |-> matrix[r][c]]]

\* the (r, c) cofactor of a 3x3 matrix
cofactor33(a, r, c) ==
    LET r1 == IF r = 1 THEN 2 ELSE 1
        r2 == IF r = 3 THEN 2 ELSE 3
        c1 == IF c = 1 THEN 2 ELSE 1
        c2 == IF c = 3 THEN 2 ELSE 3
        minor == FMul(a[r1][c1], a[r2][c2]) - FMul(a[r1][c2], a[r2][c1])
    IN IF (r + c) % 2 = 0 THEN minor ELSE 0 - minor

det33(a) ==
    FMul(a[1][1], cofactor33(a, 1, 1)) + FMul(a[1][2], cofactor33(a, 1, 2))
      + FMul(a[1][3], cofactor33(a, 1, 3))

\* np.linalg.inv(mat33).T for an invertible mat33: inverse = adjugate / det,
\* so the transposed inverse is the cofactor matrix / det
inv_transpose33(a) ==
    [r \in 1..3 |-> [c \in 1..3 |-> RDiv(cofactor33(a, r, c) * SCALE, det33(a))]]

\* one row of (inv_transpose_mat33 @ normals.T).T, divided by its norm when
\* the norm is above 1e-8
transform_normal(it, n) ==
    LET t == [r \in 1..3 |-> FMul(it[r][1], n[1]) + FMul(it[r][2], n[2])
                               + FMul(it[r][3], n[3])]
        norm == VecLength(t)
    IN IF norm >= EPS THEN VecScaleDiv(t, norm) ELSE t

\* self.attributes[name] = (self.attributes[name][0], data)
set_attr_data(attrs, name, data) ==
    [attrs EXCEPT ![AttrIndex(attrs, name)].data = data]

\* the normal arrays apply_mat rewrites
normal_attrs == <<"v_norm", "f_norm">>

\* the transform of the normal arrays normal_attrs[k..2] (lines 108-130);
\* an empty array fails in the matrix product with a ValueError
RECURSIVE transform_normal_attrs(_, _, _)
transform_normal_attrs(attrs, it, k) ==
    IF k > Len(normal_attrs) THEN [attributes |-> attrs, error |-> "none"]
    ELSE IF ~HasAttr(attrs, normal_attrs[k]) THEN transform_normal_attrs(attrs, it, k + 1)
    ELSE LET data == AttrData(attrs, normal_attrs[k])
         IN IF data = <<>> THEN [attributes |-> attrs, error |-> "ValueError"]
            ELSE transform_normal_attrs(
                   set_attr_data(attrs, normal_attrs[k],
                                 [n \in 1..Len(data) |-> transform_normal(it, data[n])]),
                   it, k + 1)

\* an apply_mat that transforms the colours like positions as well
apply_mat_recolor(attrs, matrix, variable_name) ==
    IF ~HasAttr(attrs, variable_name) \/ ~HasAttr(attrs, "color")
    THEN [attributes |-> attrs, error |-> "none"]
    ELSE LET col == AttrData(attrs, "color")
             pos == AttrData(attrs, variable_name)
         IN [attributes |->
               set_attr_data(
                 set_attr_data(attrs, variable_name,
                               [n \in 1..Len(pos) |-> transform_point(matrix, pos[n])]),
                 "color", [n \in 1..Len(col) |-> transform_point(matrix, col[n])]),
             error |-> "none"]

\* an apply_mat that takes the fallback its except branch leaves commented
\* out: a singular linear part is applied to the normals itself
apply_mat_rot_fallback(attrs, matrix, variable_name) ==
    IF ~HasAttr(attrs, variable_name) THEN [attributes |-> attrs, error |-> "none"]
    ELSE LET pos_data == AttrData(attrs, variable_name)
         IN IF pos_data = <<>> THEN [attributes |-> attrs, error |-> "ValueError"]
            ELSE LET transformed == [n \in 1..Len(pos_data) |->
                                       transform_point(matrix, pos_data[n])]
                     moved == set_attr_data(attrs, variable_name, transformed)
                 IN IF det33(mat33(matrix)) = 0
                    THEN transform_normal_attrs(moved, mat33(matrix), 1)
                    ELSE transform_normal_attrs(moved, inv_transpose33(mat33(matrix)), 1)

\* MeshData.apply_mat(matrix, variable_name): the attributes it leaves and
\* the exception it ends with.  A missing attribute is a warning and a
\* return; an empty position list fails in np.hstack before anything is
\* stored; a singular linear part (LinAlgError, caught) leaves the normals.
apply_mat(attrs, matrix, variable_name) ==
    IF ~HasAttr(attrs, variable_name) THEN [attributes |-> attrs, error |-> "none"]
    ELSE LET pos_data == AttrData(attrs, variable_name)
         IN IF pos_data = <<>> THEN [attributes |-> attrs, error |-> "ValueError"]
            ELSE LET transformed == [n \in 1..Len(pos_data) |->
                                       transform_point(matrix, pos_data[n])]
                     moved == set_attr_data(attrs, variable_name, transformed)
                 IN IF det33(mat33(matrix)) = 0
                    THEN [attributes |-> moved, error |-> "none"]
                    ELSE transform_normal_attrs(moved, inv_transpose33(mat33(matrix)), 1)

(* ------------------------------ GPU upload ----------------------------- *)
required_attrs == <<"v_pos", "indices">>

\* optional_attrs of gpu_load, in dict order
optional_attrs == <<"color", "v_norm", "f_norm", "v_uv">>

\* self.attr_locations; -1 when the name has no location
attr_location(name) ==
    IF name = "v_pos" THEN 0
    ELSE IF name = "color" THEN 1
    ELSE IF name = "v_norm" THEN 2
    ELSE IF name = "f_norm" THEN 3
    ELSE IF name = "v_uv" THEN 2
    ELSE 0 - 1

\* does gpu_load get past its own checks (lines 188-193)?
gpu_load_accepts(attrs) == \A n \in 1..Len(required_attrs) : HasAttr(attrs, required_attrs[n])

\* the attributes gpu_load uploads through _load_attribute_buffer, in order
uploaded_attrs(attrs) ==
    <<"v_pos">> \o SelectSeq(optional_attrs, LAMBDA a : HasAttr(attrs, a))

\* the bindings after uploading names[1..k] on top of the binding b
RECURSIVE bind_all(_, _, _)
bind_all(b, names, k) ==
    IF k = 0 THEN b
    ELSE LET prev == bind_all(b, names, k - 1)
             loc == attr_location(names[k])
         IN IF loc < 0 THEN prev
            ELSE [l \in DOMAIN prev \cup {loc} |-> IF l = loc THEN names[k] ELSE prev[l]]

\* ids glGenBuffers hands out: one per uploaded attribute and one for the indices
fresh_buffers(ids, n) == ids \o [k \in 1..n |-> Len(ids) + k]

(* --------------------------------- merge ------------------------------- *)
\* the first loop of merge (lines 150-153): other has every name of self
merge_accepts(attrs, other) == \A n \in 1..Len(attrs) : HasAttr(other, attrs[n].name)

\* self.attributes after the first k iterations of the second loop of merge
\* (lines 155-171), which walks the dict in insertion order and assigns
\* each merged array in place before it goes on
RECURSIVE merge_attrs(_, _, _)
merge_attrs(attrs, other, k) ==
    IF k = 0 THEN attrs
    ELSE LET prev == merge_attrs(attrs, other, k - 1)
             var_name == prev[k].name
             data == prev[k].data
             other_data == AttrData(other, var_name)
             merged_data ==
                 IF var_name = "indices" /\ HasAttr(prev, "v_pos")
                 THEN \* vertex_count = len(self.attributes["v_pos"][1]), read here
                      data \o [n \in 1..Len(other_data) |->
                                 other_data[n] + Len(AttrData(prev, "v_pos"))]
                 ELSE data \o other_data
         IN set_attr_data(prev, var_name, merged_data)

\* a merge that validates each name as it gets to it: the arrays before the
\* first missing name are merged already when it gives up
merge_as_far_as_possible(attrs, other) ==
    LET missing == {n \in 1..Len(attrs) : ~HasAttr(other, attrs[n].name)}
        k == IF missing = {} THEN Len(attrs)
             ELSE (CHOOSE n \in missing : \A m \in missing : n <= m) - 1
    IN [attributes |-> merge_attrs(attrs, other, k), accepted |-> missing = {}]

\* the attribute part of MeshData.merge: the attributes it leaves, and
\* whether it got past the validation (and so goes on to count_vert and the
\* GPU reload)
merge(attrs, other) ==
    IF merge_accepts(attrs, other)
    THEN [attributes |-> merge_attrs(attrs, other, Len(attrs)), accepted |-> TRUE]
    ELSE [attributes |-> attrs, accepted |-> FALSE]

(* ------------------------- entities (scene graph) ---------------------- *)
\* the ids Entity.__init__ can hand out within the bound
EntityIds == 0..(MaxEntities - 1)

\* parent = None
NoParent == 0 - 1

\* child in self.children
InList(list, x) == \E n \in 1..Len(list) : list[n] = x

\* list.remove(x): the list without the first occurrence of x
ListRemove(list, x) ==
    LET first == CHOOSE n \in 1..Len(list) :
                   list[n] = x /\ \A m \in 1..(n - 1) : list[m] # x
    IN [n \in 1..(Len(list) - 1) |-> IF n < first THEN list[n] ELSE list[n + 1]]

\* Entity.remove_child on the graph w = [parent, children, entities]
remove_child(w, p, child) ==
    IF InList(w.children[p], child)
    THEN [w EXCEPT !.children[p] = ListRemove(w.children[p], child),
                   !.parent[child] = NoParent]
    ELSE w

\* an add_child that does not detach the child from its former parent
add_child_no_detach(w, p, child) ==
    [w EXCEPT !.children[p] = Append(w.children[p], child), !.parent[child] = p]

\* Entity.add_child
add_child(w, p, child) ==
    LET w1 == IF w.parent[child] # NoParent
              THEN remove_child(w, w.parent[child], child)
              ELSE w
    IN [w1 EXCEPT !.children[p] = Append(w1.children[p], child), !.parent[child] = p]

\* a destroy that unregisters the entity and leaves its children alone
destroy_shallow(w, e) ==
    LET w1 == IF w.parent[e] # NoParent THEN remove_child(w, w.parent[e], e) ELSE w
    IN [w1 EXCEPT !.entities = w1.entities \ {e}]

\* Entity.destroy: detach from the parent, destroy the children over a copy
\* of the children list, unregister
RECURSIVE destroy(_, _)
RECURSIVE destroy_children(_, _, _)
destroy(w, e) ==
    LET w1 == IF w.parent[e] # NoParent THEN remove_child(w, w.parent[e], e) ELSE w
        w2 == destroy_children(w1, w1.children[e], Len(w1.children[e]))
    IN [w2 EXCEPT !.entities = w2.entities \ {e}]

\* "for child in list(self.children): child.destroy()" over the first k
\* entries of the copy
destroy_children(w, copy, k) ==
    IF k = 0 THEN w ELSE destroy(destroy_children(w, copy, k - 1), copy[k])

\* Entity.get_root on the parent links par: the entity the recursion returns,
\* NoParent when it is still climbing after fuel calls (more calls than there
\* are entities: the recursion is on a cycle and never returns)
RECURSIVE get_root(_, _, _)
get_root(par, e, fuel) ==
    IF par[e] = NoParent THEN e
    ELSE IF fuel = 0 THEN NoParent
    ELSE get_root(par, par[e], fuel - 1)

(* ----------------------- concurrent constructor calls ------------------ *)
\* two constructor calls in flight at once
Calls == {1, 2}

\* a call that has not started
IdleCall ==
    [pc |-> "idle", polyhedron_type |-> "none", radius |-> 0, subdivisions |-> 0,
     pass_no |-> 0, vertices |-> <<>>, faces |-> <<>>, attributes |-> <<>>]

\* no subdivide_faces invocation
NoFrame ==
    [new_vertices |-> <<>>, new_faces |-> <<>>, midpoint_cache |-> EmptyCache, face_i |-> 0]

\* one vertex list, face list and cache shared by all calls
frame_of_shared(c) == 1

\* new_vertices, new_faces and midpoint_cache are locals of the invocation
\* of subdivide_faces, captured by its nested get_midpoint_index: each call
\* has its own
frame_of(c) == c

(* ------------------------------- state --------------------------------- *)
VARIABLES
    obj,              \* class of the object under construction / last built
    pc,               \* position of the constructor: idle, loop, pass, built, raised
    error,            \* exception the last constructor or apply_mat call raised, "none" if none
    polyhedron_type,  \* PolyhedronGeometry.__init__ arguments
    radius,
    subdivisions,
    pass_no,          \* completed iterations of "for _ in range(subdivisions)"
    vertices,         \* locals of __init__
    faces,
    new_vertices,     \* locals of subdivide_faces
    new_faces,
    midpoint_cache,
    face_i,           \* faces already visited by "for face in faces"
    u_segments,       \* ParametricGeometry.__init__ arguments
    v_segments,
    surface,
    attributes,       \* MeshData fields
    num_vertices,
    vao_id,
    vbo_id_list,
    attr_binding,     \* GL state: attribute location -> attribute bound to it
    gpu_result,       \* last return value of gpu_load
    applied,          \* the matrices apply_mat was called with on this mesh, in order
    merged,           \* the attributes of the meshes merge was called with, in order
    calls,            \* concurrent constructor calls: call -> arguments, position, result
    frames,           \* the locals of each running subdivide_faces invocation
    next_id,          \* Entity._next_id
    entities,         \* Entity._entities: the ids registered
    parent,           \* entity id -> id of its parent, NoParent for None
    children,         \* entity id -> its children list
    manager,          \* the MeshManager: its fields and its position in load_mesh
    mgr_calls,        \* the methods called on the manager since __init__, in order
    gl_live           \* GL state: ids of the manager's meshes whose buffers are allocated

polyVars == <<polyhedron_type, radius, subdivisions, pass_no, vertices, faces>>

passVars == <<new_vertices, new_faces, midpoint_cache, face_i>>

paramVars == <<u_segments, v_segments, surface>>

gpuVars == <<vao_id, vbo_id_list, attr_binding, gpu_result>>

callVars == <<calls, frames>>

ecsVars == <<next_id, entities, parent, children>>

mgrVars == <<manager, mgr_calls, gl_live>>

\* what no method of one mesh object touches
sceneVars == <<callVars, ecsVars, mgrVars>>

meshVars == <<obj, pc, error, polyVars, passVars, paramVars, attributes, num_vertices,
              gpuVars, applied, merged>>

vars == <<meshVars, callVars, ecsVars, mgrVars>>

\* num_vertices = None
NoCount == 0 - 1

\* self.mesh = None
NoMesh ==
    [class |-> "None", polyhedron_type |-> "none", subdivisions |-> 0, segments |-> 0,
     id |-> 0 - 1]

\* no MeshManager constructed yet
NoManager ==
    [pc |-> "none", initial_mesh_type |-> "none", current_mesh_type |-> "none",
     mesh_subdivisions |-> 0, mesh |-> NoMesh, num_vertices |-> 0, error |-> "none"]

NoBinding == [l \in {} |-> ""]

Init ==
    /\ obj = "none"
    /\ pc = "idle"
    /\ error = "none"
    /\ polyhedron_type = "none"
    /\ radius = 0
    /\ subdivisions = 0
    /\ pass_no = 0
    /\ vertices = <<>>
    /\ faces = <<>>
    /\ new_vertices = <<>>
    /\ new_faces = <<>>
    /\ midpoint_cache = EmptyCache
    /\ face_i = 0
    /\ u_segments = 0
    /\ v_segments = 0
    /\ surface = "none"
    /\ attributes = <<>>
    /\ num_vertices = NoCount
    /\ vao_id = 0
    /\ vbo_id_list = <<>>
    /\ attr_binding = NoBinding
    /\ gpu_result = "none"
    /\ applied = <<>>
    /\ merged = <<>>
    /\ calls = [c \in Calls |-> IdleCall]
    /\ frames = [c \in Calls |-> NoFrame]
    /\ next_id = 0
    /\ entities = {}
    /\ parent = [e \in EntityIds |-> NoParent]
    /\ children = [e \in EntityIds |-> <<>>]
    /\ manager = NoManager
    /\ mgr_calls = <<>>
    /\ gl_live = {}

\* a constructor call starts when no object is held
CanConstruct == pc = "idle"

\* MeshData.__init__ on the fresh object, and the locals of the previous call gone
FreshMeshData ==
    /\ attributes' = <<>>
    /\ num_vertices' = NoCount
    /\ vao_id' = 0
    /\ vbo_id_list' = <<>>
    /\ attr_binding' = NoBinding
    /\ gpu_result' = "none"
    /\ applied' = <<>>
    /\ merged' = <<>>
    /\ new_vertices' = <<>>
    /\ new_faces' = <<>>
    /\ midpoint_cache' = EmptyCache
    /\ face_i' = 0

(* ----------------------- PolyhedronGeometry.__init__ ------------------- *)
\* lines 23-29: super().__init__(), the catalog lookup, the normalisation
PolyhedronInit(t, r, s) ==
    /\ CanConstruct
    /\ FreshMeshData
    /\ obj' = "polyhedron"
    /\ polyhedron_type' = t
    /\ radius' = r
    /\ subdivisions' = s
    /\ pass_no' = 0
    /\ LET base == get_base_polyhedron(t)
       IN IF base.raised
          THEN /\ pc' = "raised"
               /\ error' = "ValueError"
               /\ vertices' = <<>>
               /\ faces' = <<>>
          ELSE /\ pc' = "loop"
               /\ error' = "none"
               /\ vertices' = [i \in 1..Len(base.vertices) |-> normalize(base.vertices[i])]
               /\ faces' = base.faces
    /\ UNCHANGED paramVars
    /\ UNCHANGED sceneVars

\* a loop that runs the subdivision pass at least once
BeginPassAtLeastOnce ==
    /\ obj = "polyhedron"
    /\ pc = "loop"
    /\ pass_no < Max(subdivisions, 1)
    /\ pc' = "pass"
    /\ new_vertices' = vertices
    /\ new_faces' = <<>>
    /\ midpoint_cache' = EmptyCache
    /\ face_i' = 0
    /\ UNCHANGED <<obj, error, polyVars, paramVars, attributes, num_vertices, gpuVars>>
    /\ UNCHANGED <<applied, merged, sceneVars>>

\* subdivide_faces, lines 334-336: the pass starts with a copy and an empty cache
BeginPass ==
    /\ obj = "polyhedron"
    /\ pc = "loop"
    /\ pass_no < subdivisions
    /\ pc' = "pass"
    /\ new_vertices' = vertices
    /\ new_faces' = <<>>
    /\ midpoint_cache' = EmptyCache
    /\ face_i' = 0
    /\ UNCHANGED <<obj, error, polyVars, paramVars, attributes, num_vertices, gpuVars>>
    /\ UNCHANGED <<applied, merged, sceneVars>>

\* subdivide_faces, lines 355-369: one face
SubdivideFace ==
    /\ obj = "polyhedron"
    /\ pc = "pass"
    /\ face_i < Len(faces)
    /\ LET r == subdivide_one_face(vertices, faces[face_i + 1], new_vertices,
                                   new_faces, midpoint_cache)
       IN /\ new_vertices' = r.new_vertices
          /\ new_faces' = r.new_faces
          /\ midpoint_cache' = r.midpoint_cache
    /\ face_i' = face_i + 1
    /\ UNCHANGED <<obj, pc, error, polyVars, paramVars, attributes, num_vertices, gpuVars>>
    /\ UNCHANGED <<applied, merged, sceneVars>>

\* subdivide_faces, line 371, and the assignment of line 33
EndPass ==
    /\ obj = "polyhedron"
    /\ pc = "pass"
    /\ face_i = Len(faces)
    /\ pc' = "loop"
    /\ vertices' = new_vertices
    /\ faces' = new_faces
    /\ pass_no' = pass_no + 1
    /\ UNCHANGED <<obj, error, polyhedron_type, radius, subdivisions, passVars,
                   paramVars, attributes, num_vertices, gpuVars>>
    /\ UNCHANGED <<applied, merged, sceneVars>>

\* lines 35-97: scaling, normals, uvs, colours, add_attr, count_vert
PolyhedronBuild ==
    /\ obj = "polyhedron"
    /\ pc = "loop"
    /\ pass_no = subdivisions
    /\ pc' = "built"
    /\ attributes' = polyhedron_attributes(vertices, faces, radius)
    /\ num_vertices' = count_vert(attributes')
    /\ UNCHANGED <<obj, error, polyVars, passVars, paramVars, gpuVars>>
    /\ UNCHANGED <<applied, merged, sceneVars>>

(* ----------------------- ParametricGeometry.__init__ ------------------- *)
\* the whole constructor, as PlaneGeometry / TorusGeometry call it
ParametricInit(sfn, us, vs) ==
    /\ CanConstruct
    /\ obj' = "parametric"
    /\ surface' = sfn
    /\ u_segments' = us
    /\ v_segments' = vs
    /\ new_vertices' = <<>>
    /\ new_faces' = <<>>
    /\ midpoint_cache' = EmptyCache
    /\ face_i' = 0
    /\ vao_id' = 0
    /\ vbo_id_list' = <<>>
    /\ attr_binding' = NoBinding
    /\ gpu_result' = "none"
    /\ applied' = <<>>
    /\ merged' = <<>>
    /\ error' = parametric_error(us, vs)
    /\ IF error' # "none"
       THEN /\ pc' = "raised"
            /\ attributes' = <<>>
            /\ num_vertices' = NoCount
       ELSE /\ pc' = "built"
            /\ attributes' = parametric_attributes(sfn, us, vs)
            /\ num_vertices' = count_vert(attributes')
    /\ UNCHANGED polyVars
    /\ UNCHANGED sceneVars

(* --------------------------------- MeshData ---------------------------- *)
\* attribute names a caller adds to a plain MeshData
CallerAttrs == {"v_pos", "color", "indices"}

\* the data a caller passes: n entries
sample_data(name, n) ==
    IF name = "indices" THEN [k \in 1..n |-> k - 1]
    ELSE [k \in 1..n |-> <<k * SCALE, 0, 0>>]

\* MeshData()
NewMeshData ==
    /\ CanConstruct
    /\ FreshMeshData
    /\ obj' = "meshdata"
    /\ pc' = "built"
    /\ error' = "none"
    /\ UNCHANGED <<polyVars, paramVars>>
    /\ UNCHANGED sceneVars

\* mesh.add_attr(type, name, data) by a caller
AddAttr(name, n) ==
    /\ obj = "meshdata"
    /\ pc = "built"
    /\ attributes' = add_attr(attributes, IF name = "indices" THEN "uint" ELSE "vec3",
                              name, sample_data(name, n))
    /\ UNCHANGED <<obj, pc, error, polyVars, passVars, paramVars, num_vertices, gpuVars>>
    /\ UNCHANGED <<applied, merged, sceneVars>>

\* mesh.count_vert()
CountVert ==
    /\ obj = "meshdata"
    /\ pc = "built"
    /\ num_vertices' = count_vert(attributes)
    /\ UNCHANGED <<obj, pc, error, polyVars, passVars, paramVars, attributes, gpuVars>>
    /\ UNCHANGED <<applied, merged, sceneVars>>

\* mesh.gpu_load(); gl_fails: some OpenGL call raises
GpuLoad(gl_fails) ==
    /\ pc = "built"
    /\ Len(vbo_id_list) + 6 <= MaxBuffers
    /\ IF ~gpu_load_accepts(attributes)
       THEN /\ gpu_result' = "False"
            /\ UNCHANGED <<vao_id, vbo_id_list, attr_binding>>
       ELSE IF gl_fails
       THEN \* except branch: del_buffers(), return False
            /\ gpu_result' = "False"
            /\ vao_id' = 0
            /\ vbo_id_list' = <<>>
            /\ attr_binding' = NoBinding
       ELSE /\ gpu_result' = "True"
            /\ vao_id' = 1
            /\ vbo_id_list' = fresh_buffers(vbo_id_list, Len(uploaded_attrs(attributes)) + 1)
            /\ attr_binding' = bind_all(NoBinding, uploaded_attrs(attributes),
                                        Len(uploaded_attrs(attributes)))
    /\ UNCHANGED <<obj, pc, error, polyVars, passVars, paramVars, attributes, num_vertices>>
    /\ UNCHANGED <<applied, merged, sceneVars>>

\* mesh.del_buffers()
DelBuffers ==
    /\ pc = "built"
    /\ vbo_id_list # <<>> \/ vao_id # 0
    /\ vbo_id_list' = <<>>
    /\ vao_id' = 0
    /\ attr_binding' = NoBinding
    /\ UNCHANGED <<obj, pc, error, polyVars, passVars, paramVars, attributes,
                   num_vertices, gpu_result>>
    /\ UNCHANGED <<applied, merged, sceneVars>>


\* mesh.apply_mat(matrix) on a built mesh, variable_name left at "v_pos"
ApplyMat(matrix) ==
    /\ pc = "built"
    /\ Len(applied) < MaxTransforms
    /\ LET r == apply_mat(attributes, matrix, "v_pos")
       IN /\ attributes' = r.attributes
          /\ error' = r.error
    /\ applied' = Append(applied, matrix)
    /\ UNCHANGED <<obj, pc, polyVars, passVars, paramVars, num_vertices, gpuVars, merged>>
    /\ UNCHANGED sceneVars

\* the meshes handed to merge: a generated tetrahedron, a caller-built mesh
\* with positions, colours and indices, one without indices, and one
\* without vertices
MergeOperands ==
    { polyhedron_attributes(TetrahedronVertices, TetrahedronFaces, SCALE),
      add_attr(add_attr(add_attr(<<>>, "vec3", "v_pos", sample_data("v_pos", 2)),
                        "vec3", "color", sample_data("color", 2)),
               "uint", "indices", sample_data("indices", 2)),
      add_attr(add_attr(<<>>, "vec3", "v_pos", sample_data("v_pos", 1)),
               "vec3", "color", sample_data("color", 1)),
      add_attr(add_attr(add_attr(<<>>, "vec3", "v_pos", <<>>), "vec3", "color", <<>>),
               "uint", "indices", <<>>) }

\* mesh.merge(other_geometry) on a built mesh; gl_fails: some OpenGL call of
\* the reload raises
Merge(other, gl_fails) ==
    /\ pc = "built"
    /\ Len(merged) < MaxMerges
    /\ merged' = Append(merged, other)
    /\ LET r == merge(attributes, other)
       IN /\ attributes' = r.attributes
          /\ IF ~r.accepted
             THEN UNCHANGED <<num_vertices, gpuVars>>
             ELSE /\ num_vertices' = count_vert(r.attributes)
                  /\ IF vao_id = 0
                     THEN UNCHANGED gpuVars
                     ELSE \* del_buffers(), then gpu_load() with its result dropped
                          /\ gpu_result' = gpu_result
                          /\ IF gl_fails \/ ~gpu_load_accepts(r.attributes)
                             THEN /\ vao_id' = 0
                                  /\ vbo_id_list' = <<>>
                                  /\ attr_binding' = NoBinding
                             ELSE /\ vao_id' = 1
                                  /\ vbo_id_list' =
                                       fresh_buffers(<<>>, Len(uploaded_attrs(r.attributes)) + 1)
                                  /\ attr_binding' =
                                       bind_all(NoBinding, uploaded_attrs(r.attributes),
                                                Len(uploaded_attrs(r.attributes)))
    /\ UNCHANGED <<obj, pc, error, polyVars, passVars, paramVars, applied>>
    /\ UNCHANGED sceneVars

\* the caller drops the object (or the exception) and is free to construct again
Discard ==
    /\ pc \in {"built", "raised"}
    /\ obj' = "none"
    /\ pc' = "idle"
    /\ error' = "none"
    /\ polyhedron_type' = "none"
    /\ radius' = 0
    /\ subdivisions' = 0
    /\ pass_no' = 0
    /\ vertices' = <<>>
    /\ faces' = <<>>
    /\ u_segments' = 0
    /\ v_segments' = 0
    /\ surface' = "none"
    /\ FreshMeshData
    /\ UNCHANGED sceneVars

NextPoly ==
    \/ \E t \in SolidTypes \cup UnknownTypes, r \in Radii, s \in 0..MaxSubdivisions :
         PolyhedronInit(t, r, s)
    \/ BeginPass
    \/ SubdivideFace
    \/ EndPass
    \/ PolyhedronBuild
    \/ \E gl_fails \in BOOLEAN : GpuLoad(gl_fails)
    \/ Discard

SpecPoly == Init /\ [][NextPoly]_vars

SegmentCounts == (0 - MaxNegSegments)..MaxSegments

NextParam ==
    \/ \E sfn \in SurfaceFns, us \in SegmentCounts, vs \in SegmentCounts :
         ParametricInit(sfn, us, vs)
    \/ \E gl_fails \in BOOLEAN : GpuLoad(gl_fails)
    \/ DelBuffers
    \/ Discard

SpecParam == Init /\ [][NextParam]_vars

NextMesh ==
    \/ NewMeshData
    \/ \E name \in CallerAttrs, n \in 0..MaxAttrLen : AddAttr(name, n)
    \/ CountVert
    \/ \E gl_fails \in BOOLEAN : GpuLoad(gl_fails)
    \/ DelBuffers
    \/ Discard

SpecMesh == Init /\ [][NextMesh]_vars


(* ---------------------------- merging meshes --------------------------- *)
NextMerge ==
    \/ PolyhedronInit("tetrahedron", SCALE, 0)
    \/ PolyhedronBuild
    \/ NewMeshData
    \/ \E name \in CallerAttrs : AddAttr(name, 2)
    \/ CountVert
    \/ \E gl_fails \in BOOLEAN : GpuLoad(gl_fails)
    \/ \E other \in MergeOperands, gl_fails \in BOOLEAN : Merge(other, gl_fails)
    \/ Discard

SpecMerge == Init /\ [][NextMerge]_vars

(* ----------------------------- MeshManager ----------------------------- *)
\* self.mesh_types
mesh_types == <<"tetrahedron", "octahedron", "cube", "icosahedron", "dodecahedron", "torus">>

\* the default of increase_subdivision(max_subdivisions=5)
max_subdivisions == 5

\* the geometry object load_mesh constructs (lines 24-34), by its class and
\* constructor arguments; id tells the objects apart
new_geometry(mesh_type, level, id) ==
    IF mesh_type = "torus"
    THEN [class |-> "TorusGeometry", polyhedron_type |-> "none", subdivisions |-> 0,
          segments |-> 8 + 8 * level, id |-> id]
    ELSE [class |-> "PolyhedronGeometry", polyhedron_type |-> mesh_type,
          subdivisions |-> level, segments |-> 0, id |-> id]

\* mesh.num_vertices of that object: count_vert stores the length of its
\* index array, 3 per face with 4 faces for each face of the pass before,
\* and 2 * 3 per cell of the torus grid
index_count(geometry) ==
    IF geometry.class = "TorusGeometry"
    THEN geometry.segments * geometry.segments * 2 * 3
    ELSE 3 * Len(get_base_polyhedron(geometry.polyhedron_type).faces)
           * (4 ^ geometry.subdivisions)

\* MeshManager(initial_mesh_type, initial_subdivisions), up to its call of
\* load_mesh
ManagerInit(initial_mesh_type, initial_subdivisions) ==
    /\ manager.pc = "none"
    /\ manager.error = "none"
    /\ IF \A i \in 1..Len(mesh_types) : mesh_types[i] # initial_mesh_type
       THEN manager' = [manager EXCEPT !.error = "ValueError"]
       ELSE manager' = [pc |-> "load", initial_mesh_type |-> initial_mesh_type,
                        current_mesh_type |-> initial_mesh_type,
                        mesh_subdivisions |-> initial_subdivisions,
                        mesh |-> NoMesh, num_vertices |-> 0, error |-> "none"]
    /\ UNCHANGED <<mgr_calls, gl_live, meshVars, callVars, ecsVars>>

\* a load_mesh that goes on to construct without touching the old mesh
LoadMeshKeepOld ==
    /\ manager.pc = "load"
    /\ manager' = [manager EXCEPT !.pc = "create"]
    /\ UNCHANGED <<mgr_calls, gl_live, meshVars, callVars, ecsVars>>

\* load_mesh, lines 18-21: the buffers of the old mesh are deleted and the
\* mesh is dropped
LoadMeshRelease ==
    /\ manager.pc = "load"
    /\ IF manager.mesh # NoMesh
       THEN /\ gl_live' = gl_live \ {manager.mesh.id}
            /\ manager' = [manager EXCEPT !.pc = "create", !.mesh = NoMesh]
       ELSE /\ gl_live' = gl_live
            /\ manager' = [manager EXCEPT !.pc = "create"]
    /\ UNCHANGED <<mgr_calls, meshVars, callVars, ecsVars>>

\* load_mesh, lines 23-58: the geometry is constructed and uploaded;
\* gl_fails: some OpenGL call of gpu_load raises, gpu_load deletes what it
\* allocated and returns False
LoadMeshCreate(gl_fails) ==
    /\ manager.pc = "create"
    /\ LET geometry == new_geometry(manager.current_mesh_type, manager.mesh_subdivisions,
                                    Len(mgr_calls))
       IN IF gl_fails
          THEN /\ manager' = [manager EXCEPT !.pc = "idle", !.mesh = NoMesh,
                                              !.num_vertices = 0]
               /\ gl_live' = gl_live
          ELSE /\ manager' = [manager EXCEPT !.pc = "idle", !.mesh = geometry,
                                              !.num_vertices = index_count(geometry)]
               /\ gl_live' = gl_live \cup {geometry.id}
    /\ UNCHANGED <<mgr_calls, meshVars, callVars, ecsVars>>

\* manager.next_mesh(), up to its call of load_mesh
ManagerNextMesh ==
    /\ manager.pc = "idle"
    /\ Len(mgr_calls) < MaxManagerCalls
    /\ mgr_calls' = Append(mgr_calls, "next_mesh")
    /\ LET current_index == CHOOSE i \in 1..Len(mesh_types) :
                               mesh_types[i] = manager.current_mesh_type
           next_index == (current_index % Len(mesh_types)) + 1
       IN manager' = [manager EXCEPT !.pc = "load",
                                     !.current_mesh_type = mesh_types[next_index],
                                     !.mesh_subdivisions = 0]
    /\ UNCHANGED <<gl_live, meshVars, callVars, ecsVars>>

\* an increase_subdivision without the limit
ManagerIncreaseSubdivisionUnlimited ==
    /\ manager.pc = "idle"
    /\ Len(mgr_calls) < MaxManagerCalls
    /\ mgr_calls' = Append(mgr_calls, "increase_subdivision")
    /\ manager' = [manager EXCEPT !.pc = "load",
                                  !.mesh_subdivisions = manager.mesh_subdivisions + 1]
    /\ UNCHANGED <<gl_live, meshVars, callVars, ecsVars>>

\* manager.increase_subdivision(), up to its call of load_mesh
ManagerIncreaseSubdivision ==
    /\ manager.pc = "idle"
    /\ Len(mgr_calls) < MaxManagerCalls
    /\ mgr_calls' = Append(mgr_calls, "increase_subdivision")
    /\ IF manager.mesh_subdivisions < max_subdivisions
       THEN manager' = [manager EXCEPT !.pc = "load",
                                       !.mesh_subdivisions = manager.mesh_subdivisions + 1]
       ELSE manager' = manager
    /\ UNCHANGED <<gl_live, meshVars, callVars, ecsVars>>

NextManager ==
    \/ \E t \in {mesh_types[i] : i \in 1..Len(mesh_types)} \cup {"sphere"}, s \in 0..5 :
         ManagerInit(t, s)
    \/ LoadMeshRelease
    \/ \E gl_fails \in BOOLEAN : LoadMeshCreate(gl_fails)
    \/ ManagerNextMesh
    \/ ManagerIncreaseSubdivision

SpecManager == Init /\ [][NextManager]_vars

(* ------------------------------- Entity -------------------------------- *)
\* the entity graph as one value
World == [parent |-> parent, children |-> children, entities |-> entities]

\* the entities constructed so far: the caller may still hold any of them
Created == 0..(next_id - 1)

SetWorld(w) ==
    /\ parent' = w.parent
    /\ children' = w.children
    /\ entities' = w.entities

\* World.create_entity(name, parent) = Entity(name, parent); p = NoParent
\* for parent = None
CreateEntity(p) ==
    /\ next_id < MaxEntities
    /\ p \in Created \cup {NoParent}
    /\ next_id' = next_id + 1
    /\ LET w0 == [World EXCEPT !.entities = entities \cup {next_id},
                               !.parent[next_id] = NoParent,
                               !.children[next_id] = <<>>]
       IN SetWorld(IF p # NoParent THEN add_child(w0, p, next_id) ELSE w0)
    /\ UNCHANGED <<meshVars, callVars, mgrVars>>

\* p.add_child(child)
AddChild(p, child) ==
    /\ p \in Created
    /\ child \in Created
    /\ SetWorld(add_child(World, p, child))
    /\ UNCHANGED <<next_id, meshVars, callVars, mgrVars>>

\* p.remove_child(child)
RemoveChild(p, child) ==
    /\ p \in Created
    /\ child \in Created
    /\ SetWorld(remove_child(World, p, child))
    /\ UNCHANGED <<next_id, meshVars, callVars, mgrVars>>

\* e.destroy() (also World.destroy_entity(e))
Destroy(e) ==
    /\ e \in Created
    /\ SetWorld(destroy(World, e))
    /\ UNCHANGED <<next_id, meshVars, callVars, mgrVars>>

NextECS ==
    \/ \E p \in EntityIds \cup {NoParent} : CreateEntity(p)
    \/ \E p \in EntityIds, child \in EntityIds : AddChild(p, child)
    \/ \E p \in EntityIds, child \in EntityIds : RemoveChild(p, child)
    \/ \E e \in EntityIds : Destroy(e)

SpecECS == Init /\ [][NextECS]_vars

(* ------------------ PolyhedronGeometry.__init__, alone ----------------- *)
\* the locals of subdivide_faces(verts, fcs) after the first k faces of
\* "for face in faces", run without interruption
RECURSIVE subdivide_prefix(_, _, _)
subdivide_prefix(verts, fcs, k) ==
    IF k = 0
    THEN [new_vertices |-> verts, new_faces |-> <<>>, midpoint_cache |-> EmptyCache]
    ELSE LET p == subdivide_prefix(verts, fcs, k - 1)
         IN subdivide_one_face(verts, fcs[k], p.new_vertices, p.new_faces, p.midpoint_cache)

\* vertices, faces of __init__ after n iterations of lines 32-33
RECURSIVE subdivided(_, _)
subdivided(t, n) ==
    IF n = 0
    THEN LET base == get_base_polyhedron(t)
         IN [vertices |-> [i \in 1..Len(base.vertices) |-> normalize(base.vertices[i])],
             faces |-> base.faces]
    ELSE LET m == subdivided(t, n - 1)
             r == subdivide_prefix(m.vertices, m.faces, Len(m.faces))
         IN [vertices |-> r.new_vertices, faces |-> r.new_faces]

(* ------------------ PolyhedronGeometry.__init__, concurrent ------------ *)
\* the (polyhedron_type, radius, subdivisions) the concurrent calls are made with
ConcurrentArgs ==
    {<<"tetrahedron", SCALE, 0>>, <<"tetrahedron", 2500, 1>>, <<"octahedron", 2500, 1>>,
     <<"tetrahedron", 2500, 2>>}

\* call c enters __init__ (lines 23-29)
CallInit(c, t, r, s) ==
    /\ calls[c].pc = "idle"
    /\ LET base == get_base_polyhedron(t)
       IN calls' = [calls EXCEPT ![c] =
                      [pc |-> "loop", polyhedron_type |-> t, radius |-> r,
                       subdivisions |-> s, pass_no |-> 0,
                       vertices |-> [i \in 1..Len(base.vertices) |->
                                       normalize(base.vertices[i])],
                       faces |-> base.faces, attributes |-> <<>>]]
    /\ UNCHANGED <<frames, meshVars, ecsVars, mgrVars>>

\* call c enters subdivide_faces (lines 334-336)
CallBeginPass(c) ==
    /\ calls[c].pc = "loop"
    /\ calls[c].pass_no < calls[c].subdivisions
    /\ calls' = [calls EXCEPT ![c].pc = "pass"]
    /\ frames' = [frames EXCEPT ![frame_of(c)] =
                    [new_vertices |-> calls[c].vertices, new_faces |-> <<>>,
                     midpoint_cache |-> EmptyCache, face_i |-> 0]]
    /\ UNCHANGED <<meshVars, ecsVars, mgrVars>>

\* call c runs one iteration of "for face in faces" (lines 355-369)
CallSubdivideFace(c) ==
    /\ calls[c].pc = "pass"
    /\ frames[frame_of(c)].face_i < Len(calls[c].faces)
    /\ LET fr == frames[frame_of(c)]
           r == subdivide_one_face(calls[c].vertices, calls[c].faces[fr.face_i + 1],
                                   fr.new_vertices, fr.new_faces, fr.midpoint_cache)
       IN frames' = [frames EXCEPT ![frame_of(c)] =
                       [new_vertices |-> r.new_vertices, new_faces |-> r.new_faces,
                        midpoint_cache |-> r.midpoint_cache, face_i |-> fr.face_i + 1]]
    /\ UNCHANGED <<calls, meshVars, ecsVars, mgrVars>>

\* call c returns from subdivide_faces (line 371, assignment of line 33)
CallEndPass(c) ==
    /\ calls[c].pc = "pass"
    /\ frames[frame_of(c)].face_i = Len(calls[c].faces)
    /\ calls' = [calls EXCEPT ![c].pc = "loop",
                              ![c].vertices = frames[frame_of(c)].new_vertices,
                              ![c].faces = frames[frame_of(c)].new_faces,
                              ![c].pass_no = calls[c].pass_no + 1]
    /\ UNCHANGED <<frames, meshVars, ecsVars, mgrVars>>

\* call c runs lines 35-97 on its own MeshData
CallBuild(c) ==
    /\ calls[c].pc = "loop"
    /\ calls[c].pass_no = calls[c].subdivisions
    /\ calls' = [calls EXCEPT ![c].pc = "built",
                              ![c].attributes = polyhedron_attributes(calls[c].vertices,
                                                                      calls[c].faces,
                                                                      calls[c].radius)]
    /\ UNCHANGED <<frames, meshVars, ecsVars, mgrVars>>

NextConcurrent ==
    \/ \E c \in Calls, a \in ConcurrentArgs : CallInit(c, a[1], a[2], a[3])
    \/ \E c \in Calls : CallBeginPass(c)
    \/ \E c \in Calls : CallSubdivideFace(c)
    \/ \E c \in Calls : CallEndPass(c)
    \/ \E c \in Calls : CallBuild(c)

SpecConcurrent == Init /\ [][NextConcurrent]_vars

NextXform ==
    \/ \E t \in SolidTypes, r \in Radii : PolyhedronInit(t, r, 0)
    \/ PolyhedronBuild
    \/ \E sfn \in SurfaceFns, us \in 1..MaxXformSegments,
         vs \in 1..MaxXformSegments :
         ParametricInit(sfn, us, vs)
    \/ NewMeshData
    \/ \E name \in CallerAttrs, n \in {0, 1} : AddAttr(name, n)
    \/ \E matrix \in Matrices : ApplyMat(matrix)
    \/ Discard

SpecXform == Init /\ [][NextXform]_vars

(* ------------------------------- claims -------------------------------- *)
RECURSIVE Pow4(_)
Pow4(n) == IF n = 0 THEN 1 ELSE 4 * Pow4(n - 1)

\* the face and vertex counts the catalog is documented to return
BaseFaceCount(t) ==
    CASE t = "tetrahedron" -> 4
      [] t = "octahedron" -> 8
      [] t = "cube" -> 12
      [] t = "icosahedron" -> 20
      [] t = "dodecahedron" -> 36

BaseVertexCount(t) ==
    CASE t = "tetrahedron" -> 4
      [] t = "octahedron" -> 6
      [] t = "cube" -> 8
      [] t = "icosahedron" -> 12
      [] t = "dodecahedron" -> 20

PolyBuilt == obj = "polyhedron" /\ pc = "built"

ParamBuilt == obj = "parametric" /\ pc = "built"

PerVertexAttrs == {"v_pos", "color", "v_uv", "v_norm", "f_norm"}

\* C1: after n completed passes of subdivide_faces the face list of each of
\* the 5 solids has base_face_count * 4^n faces (4 children per visited face
\* during a pass), and the index array of the built mesh has
\* 3 * base_face_count * 4^subdivisions entries.
C1_FaceGrowth ==
    (obj = "polyhedron" /\ pc \in {"loop", "pass", "built"}) =>
        /\ Len(faces) = BaseFaceCount(polyhedron_type) * Pow4(pass_no)
        /\ pc = "pass" => Len(new_faces) = 4 * face_i
        /\ pc = "built" =>
             /\ pass_no = subdivisions
             /\ Len(AttrData(attributes, "indices"))
                  = 3 * BaseFaceCount(polyhedron_type) * Pow4(subdivisions)

C1_Witness ==
    /\ PolyBuilt
    /\ polyhedron_type = "dodecahedron"
    /\ subdivisions = 2
    /\ Len(faces) = 576
    /\ Len(AttrData(attributes, "indices")) = 1728

\* the undirected edge that side j of a face runs along
EdgeOf(face, j) == {face[j], face[(j % 3) + 1]}

\* the midpoint index the k-th visited face uses for its side j: the centre
\* child (a, b, c) is the 4th of the 4 faces it appended
MidOf(nf, k, j) == nf[4 * (k - 1) + 4][j]

\* C2: a pass starts with an empty midpoint cache and a copy of the vertex
\* list; every vertex it appends is the midpoint of one new cache entry; and
\* when the pass has visited every face, all faces that run along the same
\* undirected edge (in either direction) got the same midpoint index,
\* different edges got different indices, and the vertex count is V + E,
\* not V + 3F.
C2_EdgeSharing ==
    (obj = "polyhedron" /\ pc = "pass") =>
        /\ face_i = 0 => (midpoint_cache = EmptyCache /\ new_vertices = vertices)
        /\ Len(new_vertices) = Len(vertices) + Cardinality(DOMAIN midpoint_cache)
        /\ face_i = Len(faces) =>
             LET used == {<<EdgeOf(faces[k], j), MidOf(new_faces, k, j)>> :
                            k \in 1..Len(faces), j \in 1..3}
                 edges == {m[1] : m \in used}
                 mids == {m[2] : m \in used}
             IN /\ Cardinality(used) = Cardinality(edges)
                /\ Cardinality(mids) = Cardinality(edges)
                /\ mids = Len(vertices)..(Len(new_vertices) - 1)
                /\ Len(new_vertices) = Len(vertices) + Cardinality(edges)
                /\ Len(new_vertices) # Len(vertices) + 3 * Len(faces)

C2_Witness ==
    /\ obj = "polyhedron"
    /\ pc = "pass"
    /\ polyhedron_type = "icosahedron"
    /\ pass_no = 0
    /\ face_i = Len(faces)
    /\ Len(vertices) = 12
    /\ Len(new_vertices) = 42
    /\ Len(new_faces) = 80

\* C3: in every built polyhedron mesh the position, color, uv, vertex-normal
\* and face-normal arrays have one common length N and every index is in
\* 0..N-1.
C3_PolyParallelArrays ==
    PolyBuilt =>
        LET N == Len(AttrData(attributes, "v_pos"))
            indices == AttrData(attributes, "indices")
        IN /\ N = Len(vertices)
           /\ \A a \in PerVertexAttrs :
                HasAttr(attributes, a) /\ Len(AttrData(attributes, a)) = N
           /\ \A n \in 1..Len(indices) : indices[n] \in 0..(N - 1)

C3_Witness ==
    /\ PolyBuilt
    /\ polyhedron_type = "icosahedron"
    /\ subdivisions = 1
    /\ Len(AttrData(attributes, "f_norm")) = 42
    /\ Len(AttrData(attributes, "indices")) = 240

\* C4 (as claimed): in every mesh built by the parametric sampler with
\* u_segments >= 1 and v_segments >= 1 the five per-vertex arrays have the
\* common length N = (u_segments + 1) * (v_segments + 1) and every index is
\* in 0..N-1.
C4_ParamParallelArrays ==
    (ParamBuilt /\ u_segments >= 1 /\ v_segments >= 1) =>
        LET N == (u_segments + 1) * (v_segments + 1)
            indices == AttrData(attributes, "indices")
        IN /\ \A a \in PerVertexAttrs :
                HasAttr(attributes, a) /\ Len(AttrData(attributes, a)) = N
           /\ \A n \in 1..Len(indices) : indices[n] \in 0..(N - 1)

\* C5: a polyhedron constructor called with a type name outside the five
\* solids ends in a ValueError, whatever the radius and the subdivision
\* count, with no attribute stored, no vertex count and no solid substituted.
C5_UnknownTypeRaises ==
    (obj = "polyhedron" /\ polyhedron_type \notin SolidTypes) =>
        /\ pc = "raised"
        /\ error = "ValueError"
        /\ attributes = <<>>
        /\ num_vertices = NoCount
        /\ vertices = <<>>
        /\ faces = <<>>

C5_Witness ==
    /\ obj = "polyhedron"
    /\ polyhedron_type = "hexagon"
    /\ radius = 2500
    /\ subdivisions = 2
    /\ pc = "raised"
    /\ error = "ValueError"

\* C6 (as claimed): the parametric sampler called with u_segments <= 0 or
\* v_segments <= 0 ends in an error and stores no attribute: it never
\* returns an empty or partial buffer.
C6_NonPositiveSegmentsRaise ==
    (obj = "parametric" /\ (u_segments <= 0 \/ v_segments <= 0)) =>
        /\ pc = "raised"
        /\ error # "none"
        /\ attributes = <<>>

\* the arrays of a mesh that hold one entry per vertex all have one length
EqualLengths(attrs) ==
    \A a, b \in AttrNames(attrs) \ {"indices"} :
        Len(AttrData(attrs, a)) = Len(AttrData(attrs, b))

\* C7 (as claimed): gpu_load accepts (returns True and uploads) only a mesh
\* that has 'v_pos' and 'indices' and whose per-vertex arrays have equal
\* lengths.
C7_UploadRejectsIllFormed ==
    [][(gpu_result' = "True" /\ vbo_id_list' # vbo_id_list) =>
          /\ HasAttr(attributes, "v_pos")
          /\ HasAttr(attributes, "indices")
          /\ EqualLengths(attributes)]_vars

\* C8 (as claimed): the f_norm attribute of a built polyhedron mesh holds
\* per-face normals: either indexed by vertex, every corner of every face
\* carrying that face's outward-corrected normal, or expanded, three
\* entries per face in face order.
C8_FaceNormalsStored ==
    PolyBuilt =>
        LET pos == AttrData(attributes, "v_pos")
            f_norm == AttrData(attributes, "f_norm")
        IN \/ /\ Len(f_norm) = Len(pos)
              /\ \A k \in 1..Len(faces), j \in 1..3 :
                   f_norm[faces[k][j] + 1] = face_normal(pos, faces[k])
           \/ /\ Len(f_norm) = 3 * Len(faces)
              /\ \A k \in 1..Len(faces), j \in 1..3 :
                   f_norm[3 * (k - 1) + j] = face_normal(pos, faces[k])

\* C9: for u_segments >= 1 and v_segments >= 1 the parametric sampler emits
\* (u_segments + 1) * (v_segments + 1) positions and
\* u_segments * v_segments * 2 * 3 indices; the torus with 8 x 8 segments
\* has 81 positions and 384 indices.
C9_ParamCounts ==
    (ParamBuilt /\ u_segments >= 1 /\ v_segments >= 1) =>
        /\ Len(AttrData(attributes, "v_pos")) = (u_segments + 1) * (v_segments + 1)
        /\ Len(AttrData(attributes, "indices")) = u_segments * v_segments * 2 * 3
        /\ (surface = "torus" /\ u_segments = 8 /\ v_segments = 8) =>
             /\ Len(AttrData(attributes, "v_pos")) = 81
             /\ Len(AttrData(attributes, "indices")) = 384

C9_Witness ==
    /\ ParamBuilt
    /\ surface = "torus"
    /\ u_segments = 8
    /\ v_segments = 8
    /\ Len(AttrData(attributes, "v_pos")) = 81
    /\ Len(AttrData(attributes, "indices")) = 384

\* C10: before any subdivision pass the vertex and face tables of the five
\* solids have 4/4, 6/8, 8/12, 12/20 and 20/36 entries, every face is a
\* triple of three distinct vertex indices in range, and with
\* subdivisions = 0 the built mesh has that many positions and three
\* indices per face.
C10_BaseCatalog ==
    (obj = "polyhedron" /\ polyhedron_type \in SolidTypes /\ pass_no = 0
       /\ pc \in {"loop", "pass", "built"}) =>
        /\ Len(vertices) = BaseVertexCount(polyhedron_type)
        /\ Len(faces) = BaseFaceCount(polyhedron_type)
        /\ \A k \in 1..Len(faces) :
             /\ Len(faces[k]) = 3
             /\ \A j \in 1..3 : faces[k][j] \in 0..(Len(vertices) - 1)
             /\ Cardinality({faces[k][j] : j \in 1..3}) = 3
        /\ pc = "built" =>
             /\ Len(AttrData(attributes, "v_pos")) = BaseVertexCount(polyhedron_type)
             /\ Len(AttrData(attributes, "indices")) = 3 * BaseFaceCount(polyhedron_type)

C10_Witness ==
    /\ PolyBuilt
    /\ polyhedron_type = "icosahedron"
    /\ subdivisions = 0
    /\ Len(AttrData(attributes, "v_pos")) = 12
    /\ Len(faces) = 20
    /\ Len(AttrData(attributes, "indices")) = 60

\* C11: with subdivisions = 0 the subdivision step is the identity: the
\* vertex and face tables the buffer is built from are the catalog's
\* normalized vertices and the catalog's faces, in the same order, none
\* added and none changed; the positions are those vertices times the
\* radius and the indices are those faces flattened.
C11_ZeroSubdivisionsIdentity ==
    (obj = "polyhedron" /\ polyhedron_type \in SolidTypes /\ subdivisions = 0
       /\ pc \in {"loop", "pass", "built"}) =>
        LET base == get_base_polyhedron(polyhedron_type)
        IN /\ pc # "pass"
           /\ vertices = [i \in 1..Len(base.vertices) |-> normalize(base.vertices[i])]
           /\ faces = base.faces
           /\ pc = "built" =>
                /\ AttrData(attributes, "v_pos")
                     = [i \in 1..Len(base.vertices) |->
                          [c \in 1..3 |-> FMul(radius, normalize(base.vertices[i])[c])]]
                /\ AttrData(attributes, "indices") = FlattenTriples(base.faces)

C11_Witness ==
    /\ PolyBuilt
    /\ polyhedron_type = "cube"
    /\ subdivisions = 0
    /\ radius = 2500
    /\ Len(vertices) = 8
    /\ faces = CubeFaces
    /\ AttrData(attributes, "indices") = FlattenTriples(CubeFaces)

\* centroid of a face: [(v0[i] + v1[i] + v2[i]) / 3 for i in range(3)]
FaceCentroid(verts, face) ==
    [i \in 1..3 |-> RDiv(verts[face[1] + 1][i] + verts[face[2] + 1][i]
                           + verts[face[3] + 1][i], 3)]

\* C12: for every face of every built polyhedron mesh (the 5 solids, every
\* subdivision level, every radius) the face normal the constructor uses
\* has a non-negative dot product with the face centroid: a normal whose
\* dot product is negative is negated before it is used or accumulated.
C12_OutwardNormals ==
    PolyBuilt =>
        LET pos == AttrData(attributes, "v_pos")
        IN \A k \in 1..Len(faces) :
             /\ dot_product(FaceCentroid(pos, faces[k]), face_normal(pos, faces[k])) >= 0
             /\ dot_product(FaceCentroid(pos, faces[k]), face_normal_as_wound(pos, faces[k])) < 0
                  => face_normal(pos, faces[k]) = VecNeg(face_normal_as_wound(pos, faces[k]))

\* a built solid that has a face wound inward, whose normal had to be negated
C12_Witness ==
    /\ PolyBuilt
    /\ subdivisions = 1
    /\ \E k \in 1..Len(faces) :
         LET pos == AttrData(attributes, "v_pos")
         IN /\ dot_product(FaceCentroid(pos, faces[k]),
                           face_normal_as_wound(pos, faces[k])) < 0
            /\ dot_product(FaceCentroid(pos, faces[k]), face_normal(pos, faces[k])) > 0

\* the distance from 1 a unit vector may have after the fixed-point
\* division of normalize: half a unit per coordinate, and the rounding of
\* the square root
UnitTol == 2

\* Abs(VecLength(v) - SCALE) <= UnitTol, on the squares: VecLength is the
\* floor of the square root of the sum of the squares
IsUnit(v) ==
    LET squares == SumSeq([i \in 1..Len(v) |-> v[i] * v[i]])
    IN /\ (SCALE - UnitTol) * (SCALE - UnitTol) <= squares
       /\ squares < (SCALE + UnitTol + 1) * (SCALE + UnitTol + 1)

\* C13: every vertex the polyhedron generator holds before the radius
\* scaling, a normalized catalog vertex or a midpoint created at any
\* subdivision level, has length 1 up to the rounding of the arithmetic.
C13_UnitSphere ==
    (obj = "polyhedron" /\ pc \in {"loop", "pass", "built"}) =>
        /\ \A i \in 1..Len(vertices) : IsUnit(vertices[i])
        /\ pc = "pass" => \A i \in 1..Len(new_vertices) : IsUnit(new_vertices[i])

\* a second-level midpoint of the cube is on the unit sphere
C13_Witness ==
    /\ obj = "polyhedron"
    /\ pc = "loop"
    /\ polyhedron_type = "cube"
    /\ pass_no = 2
    /\ Len(vertices) > 26
    /\ IsUnit(vertices[Len(vertices)])
    /\ ~IsUnit(midpoint(vertices[1], vertices[2]))

\* how far a coordinate of a generated normal moves when the normal is
\* divided by its norm again: the generators divide vectors of 200 units and
\* more by a norm rounded to the unit, which leaves the length within 0.3 %
RenormTol == 3

\* two arrays of vectors that agree up to the rounding of a division by the norm
VectorsClose(a, b) ==
    /\ Len(a) = Len(b)
    /\ \A n \in 1..Len(a) : \A c \in 1..3 : Abs(a[n][c] - b[n][c]) <= RenormTol

C15_CallsIsolated ==
    /\ \A c \in Calls :
         calls[c].pc # "idle" =>
           LET alone == subdivided(calls[c].polyhedron_type, calls[c].pass_no)
           IN /\ calls[c].vertices = alone.vertices
              /\ calls[c].faces = alone.faces
              /\ calls[c].pc = "pass" =>
                   LET fr == frames[frame_of(c)]
                       p == subdivide_prefix(alone.vertices, alone.faces, fr.face_i)
                   IN /\ fr.face_i <= Len(alone.faces)
                      /\ fr.new_vertices = p.new_vertices
                      /\ fr.new_faces = p.new_faces
                      /\ fr.midpoint_cache = p.midpoint_cache
              /\ calls[c].pc = "built" =>
                   /\ calls[c].pass_no = calls[c].subdivisions
                   /\ calls[c].attributes
                        = polyhedron_attributes(alone.vertices, alone.faces, calls[c].radius)
    /\ \A c, d \in Calls :
         (/\ calls[c].pc = "built"
          /\ calls[d].pc = "built"
          /\ calls[c].polyhedron_type = calls[d].polyhedron_type
          /\ calls[c].radius = calls[d].radius
          /\ calls[c].subdivisions = calls[d].subdivisions)
           => calls[c].attributes = calls[d].attributes

\* two calls for different solids, both part-way through a subdivision pass
C15_Witness ==
    /\ calls[1].pc = "pass"
    /\ calls[2].pc = "pass"
    /\ calls[1].polyhedron_type = "tetrahedron"
    /\ calls[2].polyhedron_type = "octahedron"
    /\ frames[frame_of(1)].face_i = 2
    /\ frames[frame_of(2)].face_i = 3
    /\ Len(frames[frame_of(1)].new_vertices) > Len(calls[1].vertices)
    /\ Len(frames[frame_of(2)].new_vertices) > Len(calls[2].vertices)
    /\ frames[frame_of(1)].midpoint_cache # frames[frame_of(2)].midpoint_cache

\* how many entries of the children list of p are the entity c
TimesIn(p, c) == Cardinality({n \in 1..Len(children[p]) : children[p][n] = c})

\* C16: after any sequence of create_entity (with or without parent),
\* add_child, remove_child and destroy, on any entities ever created, c is
\* in p.children exactly when c.parent is p, and every entity is in at most
\* one children list, at most once.
C16_ParentChildConsistent ==
    /\ \A p \in Created, c \in Created : InList(children[p], c) <=> parent[c] = p
    /\ \A c \in Created :
         /\ Cardinality({p \in Created : InList(children[p], c)}) <= 1
         /\ \A p \in Created : TimesIn(p, c) <= 1
    /\ \A c \in Created : parent[c] \in Created \cup {NoParent}

\* an entity that was already a child of the root handed to add_child
\* again: it left the list and was appended behind its sibling
C16_Witness ==
    /\ next_id = 3
    /\ entities = {0, 1, 2}
    /\ children[0] = <<2, 1>>
    /\ children[1] = <<>>
    /\ parent[1] = 0
    /\ parent[2] = 0
    /\ parent[0] = NoParent

\* the entities reachable from the ones in S through children lists
RECURSIVE Subtree(_)
Subtree(S) ==
    LET more == S \cup {c \in EntityIds : \E p \in S : InList(children[p], c)}
    IN IF more = S THEN S ELSE Subtree(more)

\* C17: e.destroy() takes e and all its descendants out of the registry
\* and e out of the children list of its parent; the registry entries, the
\* parent and the children of every entity outside the subtree are as
\* before (but for e leaving its parent's list), and no id is reused.
C17_DestroyRemovesSubtree ==
    [][\A e \in EntityIds :
         Destroy(e) =>
           LET sub == Subtree({e})
           IN /\ entities' = entities \ sub
              /\ parent[e] # NoParent => ~InList(children'[parent[e]], e)
              /\ \A x \in Created \ sub :
                   /\ parent'[x] = parent[x]
                   /\ children'[x] = IF x = parent[e] THEN ListRemove(children[x], e)
                                     ELSE children[x]
              /\ next_id' = next_id]_vars

\* root, child, grandchild after child.destroy(): the child and the
\* grandchild are gone from the registry, the root is still registered
C17_Witness ==
    /\ next_id = 3
    /\ entities = {0}
    /\ children[0] = <<>>
    /\ parent[0] = NoParent
    /\ parent[1] = NoParent
    /\ children[1] = <<>>
    /\ parent[2] = NoParent

\* the flattened index of grid sample (i, j)
FlatIndex(i, j) == i * (v_segments + 1) + j

\* C19: in a mesh of the parametric sampler (u_segments, v_segments >= 1)
\* sample (i, j) is at flattened index i * (v_segments + 1) + j of the
\* position, uv, vertex-normal and color arrays, its uv is
\* (i / u_segments, j / v_segments); the index array is, cell after cell
\* in row-major order, the two triangles (i0, i1, i2), (i0, i2, i3) over the
\* samples (i, j), (i+1, j), (i+1, j+1), (i, j+1), and nothing else.
C19_GridLayout ==
    (ParamBuilt /\ u_segments >= 1 /\ v_segments >= 1) =>
        LET u_step == RDiv(param_max(surface) - param_min(surface), u_segments)
            v_step == RDiv(param_max(surface) - param_min(surface), v_segments)
            indices == AttrData(attributes, "indices")
        IN /\ \A i \in 0..u_segments, j \in 0..v_segments :
                LET n == FlatIndex(i, j) + 1
                    u == param_min(surface) + i * u_step
                    v == param_min(surface) + j * v_step
                IN /\ AttrData(attributes, "v_pos")[n] = surface_fn(surface, u, v)
                   /\ AttrData(attributes, "v_uv")[n]
                        = <<RDiv(i * SCALE, u_segments), RDiv(j * SCALE, v_segments)>>
                   /\ AttrData(attributes, "v_norm")[n]
                        = calculate_surface_normal(surface, u_step, v_step, u, v, 10)
                   /\ AttrData(attributes, "color")[n]
                        = param_colors[((i + j) % Len(param_colors)) + 1]
           /\ Len(indices) = 6 * u_segments * v_segments
           /\ \A i \in 0..(u_segments - 1), j \in 0..(v_segments - 1) :
                LET at == 6 * (i * v_segments + j)
                IN SubSeq(indices, at + 1, at + 6)
                     = <<FlatIndex(i, j), FlatIndex(i + 1, j), FlatIndex(i + 1, j + 1),
                         FlatIndex(i, j), FlatIndex(i + 1, j + 1), FlatIndex(i, j + 1)>>

C19_Witness ==
    /\ ParamBuilt
    /\ surface = "torus"
    /\ u_segments = 3
    /\ v_segments = 5
    /\ AttrData(attributes, "v_uv")[FlatIndex(2, 4) + 1] = <<667, 800>>
    /\ SubSeq(AttrData(attributes, "indices"), 6 * (2 * 5 + 4) + 1, 6 * (2 * 5 + 4) + 6)
         = <<16, 22, 23, 16, 23, 17>>

\* C20 (as claimed): the face normal recorded for each emitted triangle of
\* a parametric mesh is the normal computed from the three samples that
\* triangle's own indices address: for every triangle t of the index array,
\* the three f_norm entries recorded with it are
\* calculate_face_normal of the positions at its three indices.
C20_TriangleOwnNormal ==
    (ParamBuilt /\ u_segments >= 1 /\ v_segments >= 1) =>
        LET indices == AttrData(attributes, "indices")
            pos == AttrData(attributes, "v_pos")
            f_norm == AttrData(attributes, "f_norm")
        IN /\ Len(f_norm) = Len(indices)
           /\ \A t \in 0..((Len(indices) \div 3) - 1) :
                \A k \in 1..3 :
                  f_norm[3 * t + k]
                    = calculate_face_normal(pos[indices[3 * t + 1] + 1],
                                            pos[indices[3 * t + 2] + 1],
                                            pos[indices[3 * t + 3] + 1])

\* the directed edges the faces of fcs traverse
DirectedEdges(fcs) == {<<fcs[k][j], fcs[k][(j % 3) + 1]>> : k \in 1..Len(fcs), j \in 1..3}

\* no directed edge is traversed twice and each is traversed in reverse too:
\* every undirected edge is in exactly two faces, in opposite directions
ClosedOriented(fcs) ==
    LET edges == DirectedEdges(fcs)
    IN /\ Cardinality(edges) = 3 * Len(fcs)
       /\ {<<e[2], e[1]>> : e \in edges} = edges

\* C21: the face list of each of the 5 solids, before any pass
\* and after every completed pass, is a closed and consistently oriented
\* triangle mesh.
C21_ClosedOrientedMesh ==
    (obj = "polyhedron" /\ pc \in {"loop", "built"}) => ClosedOriented(faces)

C21_Witness ==
    /\ PolyBuilt
    /\ polyhedron_type = "dodecahedron"
    /\ subdivisions = 2
    /\ Cardinality(DirectedEdges(faces)) = 1728
    /\ <<faces[1][2], faces[1][1]>> \in DirectedEdges(faces)

\* C27: in every polyhedron mesh each vertex index 0..N-1 is referenced by
\* at least one face, so calculate_vertex_normals always divides by a positive
\* count and the colour loop always finds a face: neither zero-face fallback
\* is taken.
C27_EveryVertexReferenced ==
    /\ (obj = "polyhedron" /\ pc \in {"loop", "built"}) =>
         LET referenced == {faces[k][j] : k \in 1..Len(faces), j \in 1..3}
         IN \A i \in 0..(Len(vertices) - 1) : i \in referenced
    /\ PolyBuilt =>
         \A i \in 1..Len(vertices) : AttrData(attributes, "color")[i] # FallbackColor

C27_Witness ==
    /\ PolyBuilt
    /\ polyhedron_type = "cube"
    /\ subdivisions = 1
    /\ Len(vertices) = 26
    /\ vertex_count(faces, 25) > 0
    /\ \A i \in 1..26 : AttrData(attributes, "color")[i] # FallbackColor

\* C24 (as claimed): count_vert at the end of a geometry constructor leaves in
\* num_vertices the number of vertices of the mesh, the common length N of
\* the per-vertex arrays (12 for the unsubdivided icosahedron).
C24_NumVerticesIsVertexCount ==
    (PolyBuilt \/ ParamBuilt) =>
        /\ num_vertices = Len(AttrData(attributes, "v_pos"))
        /\ (polyhedron_type = "icosahedron" /\ subdivisions = 0) => num_vertices = 12

\* C28: apply_mat with a matrix whose 3x3 linear part has no inverse, on a
\* mesh that has positions, raises no error, replaces the positions by the
\* transformed positions and leaves the v_norm and f_norm arrays (and every
\* other attribute) as they were.
C28_SingularKeepsNormals ==
    [][(/\ Len(applied') = Len(applied) + 1
        /\ det33(mat33(applied'[Len(applied')])) = 0
        /\ HasAttr(attributes, "v_pos")
        /\ AttrData(attributes, "v_pos") # <<>>) =>
         LET matrix == applied'[Len(applied')]
             pos == AttrData(attributes, "v_pos")
         IN /\ error' = "none"
            /\ Len(attributes') = Len(attributes)
            /\ AttrData(attributes', "v_pos")
                 = [n \in 1..Len(pos) |-> transform_point(matrix, pos[n])]
            /\ \A n \in 1..Len(attributes) :
                 /\ attributes'[n].name = attributes[n].name
                 /\ attributes[n].name # "v_pos" => attributes'[n].data = attributes[n].data]_vars

\* an octahedron flattened onto the plane z = 0 that still has its normals
C28_Witness ==
    /\ PolyBuilt
    /\ polyhedron_type = "octahedron"
    /\ applied = <<Flatten4>>
    /\ error = "none"
    /\ LET made == polyhedron_attributes(vertices, faces, radius)
       IN /\ AttrData(attributes, "v_pos") # AttrData(made, "v_pos")
          /\ \A n \in 1..Len(vertices) : AttrData(attributes, "v_pos")[n][3] = 0
          /\ AttrData(attributes, "v_norm") = AttrData(made, "v_norm")
          /\ AttrData(attributes, "f_norm") = AttrData(made, "f_norm")
          /\ \E n \in 1..Len(vertices) : AttrData(attributes, "v_norm")[n][3] # 0

\* C29 (as claimed): after a successful gpu_load of a mesh that carries the
\* five per-vertex attributes, every one of them is the attribute its shader
\* location points at, and no two of them have the same location: no later
\* upload re-points the location of an earlier one.
C29_DistinctLocations ==
    (pc = "built" /\ gpu_result = "True" /\ vao_id # 0
       /\ PerVertexAttrs \subseteq AttrNames(attributes)) =>
        /\ \A a \in PerVertexAttrs :
             /\ attr_location(a) \in DOMAIN attr_binding
             /\ attr_binding[attr_location(a)] = a
        /\ \A a, b \in PerVertexAttrs : a # b => attr_location(a) # attr_location(b)

\* C30 (as claimed): after any sequence of add_child / remove_child /
\* destroy calls no entity is its own ancestor, so get_root() of every
\* entity returns, and returns an entity whose parent is None.
C30_HierarchyIsForest ==
    \A e \in entities :
        /\ get_root(parent, e, MaxEntities) # NoParent
        /\ parent[get_root(parent, e, MaxEntities)] = NoParent

\* C22 (as claimed): a.merge(b) for meshes a and b that both carry v_pos
\* and indices, a's indices added last: every merged array is a's array
\* followed by b's, and the merged index array is a's indices followed by
\* b's indices each increased by the vertex count a had before the merge,
\* so every index taken from b is below len(a.v_pos) + len(b.v_pos).
C22_MergeOffsetsIndices ==
    [][(/\ Len(merged') = Len(merged) + 1
        /\ HasAttr(attributes, "v_pos")
        /\ HasAttr(attributes, "indices")
        /\ AttrIndex(attributes, "indices") = Len(attributes)
        /\ merge_accepts(attributes, merged'[Len(merged')])) =>
         LET b == merged'[Len(merged')]
             a_count == Len(AttrData(attributes, "v_pos"))
             b_count == Len(AttrData(b, "v_pos"))
             a_indices == AttrData(attributes, "indices")
             b_indices == AttrData(b, "indices")
         IN /\ \A n \in 1..(Len(attributes) - 1) :
                 attributes'[n].data = attributes[n].data \o AttrData(b, attributes[n].name)
            /\ AttrData(attributes', "indices")
                 = a_indices \o [n \in 1..Len(b_indices) |-> b_indices[n] + a_count]
            /\ \A n \in 1..Len(b_indices) :
                 b_indices[n] < b_count =>
                   AttrData(attributes', "indices")[Len(a_indices) + n] < a_count + b_count]_vars

\* C23: a.merge(b) where b lacks an attribute name that a has changes no
\* attribute array of a, nor a.num_vertices, a.vao_id, a.vbo_id_list or the
\* attribute bindings: nothing is merged and nothing is reloaded.
C23_MergeRejectedWithoutEffect ==
    [][(/\ Len(merged') = Len(merged) + 1
        /\ ~merge_accepts(attributes, merged'[Len(merged')])) =>
         /\ attributes' = attributes
         /\ num_vertices' = num_vertices
         /\ vao_id' = vao_id
         /\ vbo_id_list' = vbo_id_list
         /\ attr_binding' = attr_binding]_vars

\* a loaded tetrahedron that was handed a mesh without uvs and normals, and a
\* caller-built mesh that was handed one without indices
C23_Witness ==
    /\ pc = "built"
    /\ Len(merged) = 1
    /\ ~HasAttr(merged[1], "indices")
    /\ HasAttr(attributes, "indices")
    /\ HasAttr(attributes, "v_pos")
    /\ Len(AttrData(attributes, "v_pos")) = 2
    /\ Len(AttrData(attributes, "indices")) = 2
    /\ vao_id = 1
    /\ Len(vbo_id_list) = 2

\* C25: for a MeshManager constructed with initial_subdivisions in 0..5,
\* 0 <= mesh_subdivisions <= 5 holds after any sequence of next_mesh() and
\* increase_subdivision() calls, and an increase_subdivision() call at level 5
\* changes nothing: not the level, not the type, not the loaded mesh, and
\* load_mesh is not entered.
C25_SubdivisionLimit ==
    /\ [](manager.mesh_subdivisions \in 0..5)
    /\ [][(/\ mgr_calls' = Append(mgr_calls, "increase_subdivision")
            /\ manager.mesh_subdivisions = 5) =>
             /\ manager' = manager
             /\ gl_live' = gl_live]_vars

\* a manager that reached level 5 by calls and was asked for more
C25_Witness ==
    /\ manager.pc = "idle"
    /\ manager.mesh_subdivisions = 5
    /\ manager.mesh = new_geometry("cube", 5, 5)
    /\ manager.num_vertices = 36864
    /\ mgr_calls = [n \in 1..6 |-> "increase_subdivision"]
    /\ gl_live = {5}

\* how many of the calls were next_mesh()
NextMeshCalls == Cardinality({n \in 1..Len(mgr_calls) : mgr_calls[n] = "next_mesh"})

\* the type k places after mesh_type in the cyclic order of mesh_types
TypeAfter(mesh_type, k) ==
    LET i == CHOOSE n \in 1..Len(mesh_types) : mesh_types[n] = mesh_type
    IN mesh_types[((i - 1 + k) % Len(mesh_types)) + 1]

\* C26: next_mesh() moves current_mesh_type to the next entry of
\* tetrahedron, octahedron, cube, icosahedron, dodecahedron, torus (torus
\* wraps to tetrahedron), sets mesh_subdivisions to 0 and enters load_mesh;
\* after k calls the type is k places after the initial one, so six calls
\* return to it; load_mesh constructs the new mesh only when the old mesh
\* is dropped and its buffers are deleted, and leaves the mesh of the
\* current type and level (or none, when the upload failed).
C26_NextMeshCycle ==
    /\ [][mgr_calls' = Append(mgr_calls, "next_mesh") =>
             /\ manager'.current_mesh_type = TypeAfter(manager.current_mesh_type, 1)
             /\ (manager.current_mesh_type = "torus"
                   => manager'.current_mesh_type = "tetrahedron")
             /\ manager'.mesh_subdivisions = 0
             /\ manager'.pc = "load"]_vars
    /\ [](manager.pc # "none" =>
             /\ manager.current_mesh_type
                  = TypeAfter(manager.initial_mesh_type, NextMeshCalls)
             /\ NextMeshCalls = 6 => manager.current_mesh_type = manager.initial_mesh_type)
    /\ [](manager.pc = "create" => (manager.mesh = NoMesh /\ gl_live = {}))
    /\ [](manager.pc = "idle" =>
             /\ manager.mesh \in {NoMesh, new_geometry(manager.current_mesh_type,
                                                       manager.mesh_subdivisions,
                                                       manager.mesh.id)}
             /\ gl_live = (IF manager.mesh = NoMesh THEN {} ELSE {manager.mesh.id}))

\* six next_mesh() calls from the dodecahedron, through the torus and back
C26_Witness ==
    /\ manager.pc = "idle"
    /\ manager.initial_mesh_type = "dodecahedron"
    /\ mgr_calls = [n \in 1..6 |-> "next_mesh"]
    /\ manager.current_mesh_type = "dodecahedron"
    /\ manager.mesh_subdivisions = 0
    /\ manager.mesh = new_geometry("dodecahedron", 0, 6)
    /\ gl_live = {6}


====
